---- MODULE Spec2Model ----
(***************************************************************************)
(* Model of the paper-skills LaTeX tooling:                                *)
(*   validate_citations.py      citation validator (local checks, title    *)
(*                              similarity, optional Crossref pass)        *)
(*   parse_latex_structure.py   structure parser (_build_issues, walk)     *)
(*   verify_content_targets.py  figure/table/section verifier (walk)       *)
(* Strings are sequences of one-character strings.  A similarity score is  *)
(* the exact fraction [num, den] of the float the code computes.           *)
(***************************************************************************)
EXTENDS Integers, Sequences, FiniteSets, TLC

VARIABLES
    pc,                 \* position of the run being modelled
    ta, tb, score,      \* _title_match_score: the two titles and the result
    citations,          \* extracted citation records, in extraction order
    bib_entries,        \* extracted bibliography records, in extraction order
    local_issues,       \* validate_citations.main: local_issues
    issues,             \* parse_latex_structure.main: issues of the report
    max_issues,         \* parse_latex_structure: the --max-issues option
    refs,               \* extracted cross-reference records
    figures, tables,    \* extracted figure and table environments
    includes,           \* per file: resolved inclusion targets, textual order
    unreadable,         \* files whose read raises OSError
    walker,             \* which walk runs: "collect" or "sections"
    visited, ordered,   \* walk: the visited set and the ordered file list
    stack,              \* walk: the call stack, frames [file, next]
    processed,          \* walk: how often each file's body was entered
    entry_i,            \* remote pass: index of the entry being handled
    lookups,            \* remote pass: what the service answered for the entry
    requests,           \* remote pass: log of the HTTP requests issued
    result,             \* remote pass: the current entry's result, or NoResult
    validation_results, \* remote pass: validation_results
    remote_entries,     \* remote pass: the BibEntry records (key, doi, title)
    text,               \* the source text handed to the function being run
    scanned,            \* what that function returns for it
    sections,           \* verify_content_targets: the extracted sections
    section_name,       \* verify_content_targets: the --section-name option
    target_result,      \* verify_content_targets.main: result
    invocation,         \* main: the options given and the files they name
    outcome             \* main: exit status, report printed, diagnostic printed

titleVars  == <<ta, tb, score>>
localVars  == <<citations, bib_entries, local_issues, issues, max_issues,
               refs, figures, tables>>
walkVars   == <<includes, unreadable, walker, visited, ordered, stack, processed>>
remoteVars == <<entry_i, lookups, requests, result, validation_results, remote_entries>>
sourceVars == <<text, scanned>>
verifyVars == <<sections, section_name, target_result>>
runVars    == <<invocation, outcome>>
vars       == <<pc, titleVars, localVars, walkVars, remoteVars, sourceVars, verifyVars,
               runVars>>

----------------------------------------------------------------------------
(* Bounds of the model *)

MaxTitleLen == 3
MaxCites    == 2
MaxBib      == 2
MaxIssuesArg == 3
MaxDirectives == 3
MaxEntries  == 2
MaxItems    == 2
MaxFigs       == 2
MaxRefs       == 2
MaxTokens     == 5
MaxRecords    == 2
MaxDropped    == 2
MaxLineLen    == 5
MaxSections   == 2
MaxTexFiles   == 2
MaxTargets    == 2
MaxLines      == 4

----------------------------------------------------------------------------
(* Generic helpers on sequences and sets *)

Range(s) == {s[i] : i \in 1..Len(s)}

Min2(a, b) == IF a <= b THEN a ELSE b

BoundedSeq(S, n) == UNION {[1..k -> S] : k \in 0..n}

RECURSIVE SumSeq(_)
SumSeq(ns) == IF ns = <<>> THEN 0 ELSE Head(ns) + SumSeq(Tail(ns))

RECURSIVE Concat(_)
Concat(ss) == IF ss = <<>> THEN <<>> ELSE Head(ss) \o Concat(Tail(ss))

Idle == "idle"

\* Python's None
None == "None"

----------------------------------------------------------------------------
(* Characters *)

LowerLetters == {"a", "b", "c", "d", "o", "t", "x"}
UpperLetters == {"A", "B", "X"}
Digits       == {"1"}

IsLetter(c) == c \in LowerLetters \cup UpperLetters
IsAlnum(c)  == IsLetter(c) \/ c \in Digits
IsSpace(c)  == c = " "

\* str.lower()
Lower(c) == CASE c = "A" -> "a" [] c = "B" -> "b" [] c = "X" -> "x" [] OTHER -> c

\* index of the first position >= i of s holding c, or 0
RECURSIVE FindFrom(_, _, _)
FindFrom(s, c, i) ==
    IF i > Len(s) THEN 0 ELSE IF s[i] = c THEN i ELSE FindFrom(s, c, i + 1)

\* number of letters of s starting at position i
RECURSIVE LetterRun(_, _)
LetterRun(s, i) ==
    IF i <= Len(s) /\ IsLetter(s[i]) THEN 1 + LetterRun(s, i + 1) ELSE 0

----------------------------------------------------------------------------
(* validate_citations.py: _normalize_title *)

NoMatch == [end |-> 0, inner |-> <<>>]

\* re.match of  \\[a-zA-Z]+\*?(\[[^\]]*\])?\{([^}]*)\}  at position i of s:
\* [end |-> first position after the match, inner |-> group 2], or NoMatch.
CommandMatch(s, i) ==
    IF i > Len(s) \/ s[i] # "\\" THEN NoMatch
    ELSE LET k  == LetterRun(s, i + 1)
             j1 == i + 1 + k
             j2 == IF j1 <= Len(s) /\ s[j1] = "*" THEN j1 + 1 ELSE j1
             rb == IF j2 <= Len(s) /\ s[j2] = "[" THEN FindFrom(s, "]", j2 + 1) ELSE 0
             j3 == IF rb > 0 THEN rb + 1 ELSE j2
             cb == IF j3 <= Len(s) /\ s[j3] = "{" THEN FindFrom(s, "}", j3 + 1) ELSE 0
         IN  IF k = 0 \/ cb = 0 THEN NoMatch
             ELSE [end |-> cb + 1, inner |-> SubSeq(s, j3 + 1, cb - 1)]

\* re.sub(command pattern, r"\2", s), scanning from position i
RECURSIVE SubCommands(_, _)
SubCommands(s, i) ==
    IF i > Len(s) THEN <<>>
    ELSE LET m == CommandMatch(s, i)
         IN  IF m.end > 0 THEN m.inner \o SubCommands(s, m.end)
             ELSE <<s[i]>> \o SubCommands(s, i + 1)

\* re.sub(r"[{}]", "", s)
StripBraces(s) == SelectSeq(s, LAMBDA c : c \notin {"{", "}"})

\* re.sub(r"[^a-zA-Z0-9\s]", " ", s)
PunctToSpace(s) == [i \in 1..Len(s) |-> IF IsAlnum(s[i]) \/ IsSpace(s[i]) THEN s[i] ELSE " "]

\* re.sub(r"\s+", " ", s)
RECURSIVE CollapseSpaces(_)
CollapseSpaces(s) ==
    IF s = <<>> THEN <<>>
    ELSE IF IsSpace(Head(s))
         THEN IF Len(s) > 1 /\ IsSpace(s[2]) THEN CollapseSpaces(Tail(s))
              ELSE <<" ">> \o CollapseSpaces(Tail(s))
         ELSE <<Head(s)>> \o CollapseSpaces(Tail(s))

\* str.strip()
RECURSIVE LStrip(_)
LStrip(s) == IF s # <<>> /\ IsSpace(Head(s)) THEN LStrip(Tail(s)) ELSE s

RECURSIVE RStrip(_)
RStrip(s) ==
    IF s # <<>> /\ IsSpace(s[Len(s)]) THEN RStrip(SubSeq(s, 1, Len(s) - 1)) ELSE s

Strip(s) == RStrip(LStrip(s))

LowerStr(s) == [i \in 1..Len(s) |-> Lower(s[i])]

_normalize_title(title) ==
    IF title = <<>> THEN <<>>
    ELSE LowerStr(Strip(CollapseSpaces(PunctToSpace(StripBraces(SubCommands(title, 1))))))

----------------------------------------------------------------------------
(* validate_citations.py: _title_match_score *)

\* str.split(): the whitespace-separated words of s
RECURSIVE Split(_)
Split(s) ==
    LET t == LStrip(s)
    IN  IF t = <<>> THEN <<>>
        ELSE LET sp == FindFrom(t, " ", 1)
             IN  IF sp = 0 THEN <<t>>
                 ELSE <<SubSeq(t, 1, sp - 1)>> \o Split(SubSeq(t, sp + 1, Len(t)))

\* a in b
IsSubstring(a, b) ==
    \E i \in 0..(Len(b) - Len(a)) : SubSeq(b, i + 1, i + Len(a)) = a

Frac(n, d) == [num |-> n, den |-> d]

\* float comparisons, on the exact fractions
ScoreGE(s, t) == s.num * t.den >= t.num * s.den
ScoreGT(s, t) == s.num * t.den >  t.num * s.den
ScoreEQ(s, t) == s.num * t.den =  t.num * s.den

Zero    == Frac(0, 1)
One     == Frac(1, 1)
SubstringScore == Frac(9, 10)

\* a slip that tests one direction only
SubstringRelatedOneWay(na, nb) == IsSubstring(na, nb)

\* line 234: na in nb or nb in na
SubstringRelated(na, nb) == IsSubstring(na, nb) \/ IsSubstring(nb, na)

\* a slip that never lets the token overlap score above the substring score
JaccardBelowSubstring(na, nb) ==
    LET set_a == Range(Split(na))
        set_b == Range(Split(nb))
    IN  IF set_a = {} \/ set_b = {} THEN Zero
        ELSE IF 10 * Cardinality(set_a \cap set_b) >= 9 * Cardinality(set_a \cup set_b)
        THEN Frac(89, 100)
        ELSE Frac(Cardinality(set_a \cap set_b), Cardinality(set_a \cup set_b))

\* lines 237-243: the token-set Jaccard index
Jaccard(na, nb) ==
    LET set_a == Range(Split(na))
        set_b == Range(Split(nb))
    IN  IF set_a = {} \/ set_b = {} THEN Zero
        ELSE Frac(Cardinality(set_a \cap set_b), Cardinality(set_a \cup set_b))

\* a slip that leaves out the identity branch of line 232
ScoreWithoutIdentity(na, nb) ==
    IF na = <<>> \/ nb = <<>> THEN Zero
    ELSE IF SubstringRelated(na, nb) THEN SubstringScore
    ELSE Jaccard(na, nb)

TitleMatchScoreNoIdentity(a, b) ==
    ScoreWithoutIdentity(_normalize_title(a), _normalize_title(b))

\* lines 230-243: the score of the two normalized titles
ScoreNormalized(na, nb) ==
    IF na = <<>> \/ nb = <<>> THEN Zero
    ELSE IF na = nb THEN One
    ELSE IF SubstringRelated(na, nb) THEN SubstringScore
    ELSE Jaccard(na, nb)

_title_match_score(a, b) == ScoreNormalized(_normalize_title(a), _normalize_title(b))

----------------------------------------------------------------------------
(* Extracted records and their order *)

Keys     == {"a", "b"}
\* sorted() on the keys
KeyOrder == <<"a", "b">>

Commands == {"cite", "citep"}

\* the working set of TeX files, in the order the extractors read them
TexOrder == <<"a.tex", "main.tex">>
BibFile  == "refs.bib"
LineNos  == {1, 2}

FileIndex(f) == CHOOSE i \in 1..Len(TexOrder) : TexOrder[i] = f

\* r is extracted no later than q: files in order, then lines in order
LocLE(r, q) ==
    \/ FileIndex(r.file) < FileIndex(q.file)
    \/ r.file = q.file /\ r.line <= q.line

CitationRecords == [key : Keys, command : Commands, file : Range(TexOrder), line : LineNos]
BibRecords      == [key : Keys, file : {BibFile}, line : LineNos]

\* what _extract_citations can return: records in reading order
CitationLists ==
    {cs \in BoundedSeq(CitationRecords, MaxCites) :
        \A i \in 1..(Len(cs) - 1) : LocLE(cs[i], cs[i + 1])}

\* what _parse_bib_entries can return: records in reading order
BibLists ==
    {bs \in BoundedSeq(BibRecords, MaxBib) :
        \A i \in 1..(Len(bs) - 1) : bs[i].line <= bs[i + 1].line}

\* _extract_bib_keys keeps at most one record per line (re.search per line)
OnePerLine(bs) == \A i \in 1..(Len(bs) - 1) : bs[i].line < bs[i + 1].line

SetMin(S) == CHOOSE x \in S : \A y \in S : x <= y
SetMax(S) == CHOOSE x \in S : \A y \in S : x >= y

\* the element of a one-element set
Only(S) == CHOOSE x \in S : TRUE

Count(seq, P(_)) == Cardinality({i \in 1..Len(seq) : P(seq[i])})

----------------------------------------------------------------------------
(* validate_citations.py: main, the local checks (lines 430-478) *)

cited_keys(cs) == {cs[i].key : i \in 1..Len(cs)}

\* a slip that keeps the first record of a key
BibKeyMapFirstWins(bs) ==
    [k \in {bs[i].key : i \in 1..Len(bs)} |->
        bs[SetMin({i \in 1..Len(bs) : bs[i].key = k})]]

\* {entry.key: entry for entry in bib_entries}: a later record replaces an
\* earlier one with the same key
bib_key_map(bs) ==
    [k \in {bs[i].key : i \in 1..Len(bs)} |->
        bs[SetMax({i \in 1..Len(bs) : bs[i].key = k})]]

bib_keys(bs) == DOMAIN bib_key_map(bs)

\* sorted(S) for a set of keys
Sorted(S) == SelectSeq(KeyOrder, LAMBDA k : k \in S)

\* a slip that walks the citation records instead of the set of keys
UndefinedKeysPerRecord(cs, bs) ==
    LET ks == [i \in 1..Len(cs) |-> cs[i].key]
    IN  SelectSeq(ks, LAMBDA k : k \notin bib_keys(bs))

undefined_keys(cs, bs) == Sorted(cited_keys(cs) \ bib_keys(bs))

uncited_keys(cs, bs) == Sorted(bib_keys(bs) \ cited_keys(cs))

\* a slip that takes the last citation of the key
LastCitation(cs, key) == cs[SetMax({i \in 1..Len(cs) : cs[i].key = key})]

\* next(c for c in citations if c["key"] == key)
FirstCitation(cs, key) == cs[SetMin({i \in 1..Len(cs) : cs[i].key = key})]

UndefinedIssues(cs, bs) ==
    LET und == undefined_keys(cs, bs)
    IN  [i \in 1..Len(und) |->
            [type |-> "undefined_citation", severity |-> "error", key |-> und[i],
             file |-> FirstCitation(cs, und[i]).file,
             line |-> FirstCitation(cs, und[i]).line]]

UncitedIssues(cs, bs) ==
    LET unc == uncited_keys(cs, bs)
    IN  [i \in 1..Len(unc) |->
            [type |-> "uncited_bibliography_entry", severity |-> "warning",
             key |-> unc[i],
             file |-> bib_key_map(bs)[unc[i]].file,
             line |-> bib_key_map(bs)[unc[i]].line]]

\* a slip that keeps, of the generic citations, the first of each key
GenericOncePerKey(cs) ==
    LET gen == SelectSeq(cs, LAMBDA c : c.command = "cite")
    IN  SelectSeq(gen, LAMBDA c : c = FirstCitation(gen, c.key))

\* str(c.get("command", "")).lower() == "cite"; CITE_RE admits lower-case
\* "cite" only, so lower() changes nothing the comparison reads
style_issues(cs) == SelectSeq(cs, LAMBDA c : c.command = "cite")

StyleIssues(cs) ==
    LET st == style_issues(cs)
    IN  [i \in 1..Len(st) |->
            [type |-> "citation_style_generic_cite", severity |-> "info",
             key |-> st[i].key, file |-> st[i].file, line |-> st[i].line,
             message |-> "Consider replacing \\cite with \\citep or \\citet based on sentence usage."]]

LocalIssues(cs, bs) == UndefinedIssues(cs, bs) \o UncitedIssues(cs, bs) \o StyleIssues(cs)

\* lines 513-526: the counts of the summary that the local checks decide
summary(cs, bs) ==
    [citations                    |-> Len(cs),
     unique_citation_keys         |-> Cardinality(cited_keys(cs)),
     bib_entries                  |-> Len(bs),
     undefined_citations          |-> Len(undefined_keys(cs, bs)),
     uncited_bibliography_entries |-> Len(uncited_keys(cs, bs)),
     style_issues                 |-> Len(style_issues(cs))]

----------------------------------------------------------------------------
(* parse_latex_structure.py: _build_issues *)

\* a label is a sequence of tokens; the prefixes "fig:" and "tab:" are tokens
StartsWith(label, prefix) == Len(label) >= 1 /\ label[1] = prefix

\* sorted() on the labels
LabelOrder == << <<"fig:", "r">>, <<"fig:", "s">>, <<"r">>, <<"tab:", "r">> >>
SortedLabels(S) == SelectSeq(LabelOrder, LAMBDA l : l \in S)

\* _first_by_key(items, key_name, key_value), for key_name "key" and "label":
\* the index of the first such item, 0 for None
_first_by_key(items, key_value) ==
    LET hits == {i \in 1..Len(items) : items[i].key = key_value}
    IN  IF hits = {} THEN 0 ELSE SetMin(hits)

FirstByLabel(items, label) ==
    LET hits == {i \in 1..Len(items) : items[i].label = label}
    IN  IF hits = {} THEN 0 ELSE SetMin(hits)

\* where.get("file") if where else None
WhereFile(items, where) == IF where = 0 THEN None ELSE items[where].file
WhereLine(items, where) == IF where = 0 THEN None ELSE items[where].line

RecordKeys(items) == {items[i].key : i \in 1..Len(items)}

\* a slip that walks the citation records instead of the set of keys
ParserUndefinedKeysPerRecord(cs, bs) ==
    LET ks == [i \in 1..Len(cs) |-> cs[i].key]
    IN  SelectSeq(ks, LAMBDA k : k \notin RecordKeys(bs))

\* line 254: sorted(cited_keys - bib_keys)
ParserUndefinedKeys(cs, bs) == Sorted(RecordKeys(cs) \ RecordKeys(bs))

\* line 266: sorted(bib_keys - cited_keys)
ParserUncitedKeys(cs, bs) == Sorted(RecordKeys(bs) \ RecordKeys(cs))

ParserCitationIssues(cs, bs) ==
    LET und == ParserUndefinedKeys(cs, bs)
        unc == ParserUncitedKeys(cs, bs)
    IN  [i \in 1..Len(und) |->
            [type |-> "undefined_citation", severity |-> "error", key |-> und[i],
             file |-> WhereFile(cs, _first_by_key(cs, und[i])),
             line |-> WhereLine(cs, _first_by_key(cs, und[i]))]]
        \o
        [i \in 1..Len(unc) |->
            [type |-> "uncited_bibliography_entry", severity |-> "warning",
             key |-> unc[i],
             file |-> WhereFile(bs, _first_by_key(bs, unc[i])),
             line |-> WhereLine(bs, _first_by_key(bs, unc[i]))]]

\* lines 284-346: the label and caption issues of one figure or table
FloatIssues(env, kind, prefix) ==
    (IF ~env.has_label
     THEN << [type |-> kind \o "_missing_label", severity |-> "error",
              file |-> env.file, line |-> env.line] >>
     ELSE IF ~StartsWith(env.label, prefix)
     THEN << [type |-> kind \o "_label_prefix", severity |-> "warning",
              file |-> env.file, line |-> env.line, label |-> env.label,
              expected |-> prefix \o "*"] >>
     ELSE <<>>)
    \o
    (IF ~env.has_caption
     THEN << [type |-> kind \o "_missing_caption", severity |-> "warning",
              file |-> env.file, line |-> env.line,
              label |-> IF env.label = <<>> THEN None ELSE env.label] >>
     ELSE <<>>)

\* lines 348-370: the labels no reference with the expected prefix names
UnreferencedIssues(envs, rs, kind, prefix) ==
    LET labels == {envs[i].label : i \in 1..Len(envs)} \ {<<>>}
        prefixed_refs == {k \in RecordKeys(rs) : StartsWith(k, prefix)}
        unref == SortedLabels(labels \ prefixed_refs)
    IN  [i \in 1..Len(unref) |->
            [type |-> "unreferenced_" \o kind, severity |-> "warning",
             label |-> unref[i],
             file |-> WhereFile(envs, FirstByLabel(envs, unref[i])),
             line |-> WhereLine(envs, FirstByLabel(envs, unref[i]))]]

\* issues[:max_issues] with max_issues >= 1
Truncate(seq, n) == SubSeq(seq, 1, Min2(n, Len(seq)))

AllIssues(cs, bs, rs, figs, tabs) ==
    ParserCitationIssues(cs, bs)
    \o Concat([i \in 1..Len(figs) |-> FloatIssues(figs[i], "figure", "fig:")])
    \o Concat([i \in 1..Len(tabs) |-> FloatIssues(tabs[i], "table", "tab:")])
    \o UnreferencedIssues(figs, rs, "figure", "fig:")
    \o UnreferencedIssues(tabs, rs, "table", "tab:")

_build_issues(cs, bs, rs, figs, tabs, max) ==
    Truncate(AllIssues(cs, bs, rs, figs, tabs), max)

\* line 455: max(1, args.max_issues)
MaxIssuesOption(arg) == IF arg >= 1 THEN arg ELSE 1

----------------------------------------------------------------------------
(* validate_citations.py, verify_content_targets.py, parse_latex_structure.py: *)
(* _strip_comment                                                           *)
(* A line is a sequence of characters; the text __PERCENT__, which the      *)
(* function uses as a stand-in, is one element of the sequence.             *)

Placeholder == "__PERCENT__"

LineChars == {"\\", "%", "x", Placeholder}

\* line.replace(r"\%", "__PERCENT__")
RECURSIVE ReplaceEscaped(_)
ReplaceEscaped(line) ==
    IF line = <<>> THEN <<>>
    ELSE IF Len(line) >= 2 /\ line[1] = "\\" /\ line[2] = "%"
    THEN <<Placeholder>> \o ReplaceEscaped(SubSeq(line, 3, Len(line)))
    ELSE <<Head(line)>> \o ReplaceEscaped(Tail(line))

\* escaped.split("%", 1)[0]
BeforeFirstPercent(escaped) ==
    IF FindFrom(escaped, "%", 1) = 0 THEN escaped
    ELSE SubSeq(escaped, 1, FindFrom(escaped, "%", 1) - 1)

\* code.replace("__PERCENT__", r"\%")
RECURSIVE RestoreEscaped(_)
RestoreEscaped(code) ==
    IF code = <<>> THEN <<>>
    ELSE IF Head(code) = Placeholder THEN <<"\\", "%">> \o RestoreEscaped(Tail(code))
    ELSE <<Head(code)>> \o RestoreEscaped(Tail(code))

_strip_comment(line) == RestoreEscaped(BeforeFirstPercent(ReplaceEscaped(line)))

----------------------------------------------------------------------------
(* verify_content_targets.py: _extract_envs for env_name "figure"           *)
(* The content of a file is a sequence of tokens: a line break, or one     *)
(* whole directive.                                                         *)

Newline     == "\n"
BeginFigure == "\\begin{figure}"
EndFigure   == "\\end{figure}"
LabelCmd    == "\\label{fig:r}"
CaptionCmd  == "\\caption{Overview of the tool}"
WidthSpec   == "width=1.2\\textwidth"
NegHspace   == "\\hspace{-1em}"

EnvTokens == {Newline, BeginFigure, EndFigure, LabelCmd, CaptionCmd, WidthSpec, NegHspace}

Has(block, tok) == FindFrom(block, tok, 1) # 0

\* a slip that numbers the lines from 0
LineNoFromZero(content, start) ==
    Count(SubSeq(content, 1, start - 1), LAMBDA t : t = Newline)

\* line 135: content.count("\n", 0, match.start()) + 1
LineNo(content, start) ==
    Count(SubSeq(content, 1, start - 1), LAMBDA t : t = Newline) + 1

\* lines 137-142: the first \label of the block, "" without one
BlockLabel(block) == IF Has(block, LabelCmd) THEN <<"fig:", "r">> ELSE <<>>

\* lines 138-142: the length of the first caption of the block, whitespace
\* collapsed; 0 without one
BlockCaption(block) == IF Has(block, CaptionCmd) THEN 20 ELSE 0

\* line 233: the first width factor of the block, in tenths
BlockWidth(block) == IF Has(block, WidthSpec) THEN 12 ELSE 0

\* lines 144-152: the record of the match from start to end
EnvItem(file, content, start, end) ==
    [file |-> file, line |-> LineNo(content, start),
     label   |-> BlockLabel(SubSeq(content, start, end)),
     caption |-> BlockCaption(SubSeq(content, start, end)),
     width   |-> BlockWidth(SubSeq(content, start, end)),
     hspace  |-> Has(SubSeq(content, start, end), NegHspace)]

\* env_re.finditer(content) from position pos on: the leftmost \begin{figure}
\* that has an \end{figure} after it, up to the first such \end{figure}
\* (non-greedy, across lines), then on from behind that match
RECURSIVE EnvsFrom(_, _, _)
EnvsAfterBegin(file, content, start) ==
    IF start = 0 \/ FindFrom(content, EndFigure, start + 1) = 0 THEN <<>>
    ELSE << EnvItem(file, content, start, FindFrom(content, EndFigure, start + 1)) >>
         \o EnvsFrom(file, content, FindFrom(content, EndFigure, start + 1) + 1)
EnvsFrom(file, content, pos) ==
    EnvsAfterBegin(file, content, FindFrom(content, BeginFigure, pos))

\* lines 121-155, for one file
_extract_envs(file, content) == EnvsFrom(file, content, 1)

----------------------------------------------------------------------------
(* validate_citations.py: _parse_bib_fields and _parse_bib_entries          *)
(* The content of a bibliography file is a sequence of characters;         *)
(* positions count from 1, so Python's index i is position i + 1.          *)

BibLetters == {"a", "b", "c", "e", "i", "l", "r", "t", "A", "B"}
BibSpaces  == {" ", "\n"}

\* \w
IsWordChar(c) == c \in BibLetters \cup Digits \cup {"_"}
\* [A-Za-z0-9_-]
IsNameChar(c) == IsWordChar(c) \/ c = "-"
\* str.isspace(), \s
IsBibSpace(c) == c \in BibSpaces
\* in " \t\r\n,"
IsSeparator(c) == c \in BibSpaces \cup {","}
\* not in ",\n\r"
IsBareChar(c) == c \notin {",", "\n"}

\* the first position >= i of s whose character does not satisfy P,
\* Len(s) + 1 when there is none: where  while i < n and P(s[i]): i += 1  ends
RunEnd(s, i, P(_)) ==
    IF \A j \in i..Len(s) : P(s[j]) THEN IF i > Len(s) THEN i ELSE Len(s) + 1
    ELSE SetMin({j \in i..Len(s) : ~P(s[j])})

\* lines 119-128 and 172-180:  while j < n and depth > 0  with depth + 1 on
\* "{" and depth - 1 on "}": the position behind the last character read and
\* the depth there
RECURSIVE DepthScan(_, _, _)
DepthScan(s, j, depth) ==
    IF j > Len(s) \/ depth = 0 THEN [j |-> j, depth |-> depth]
    ELSE Only({DepthScan(s, k, d) :
               k \in {j + 1},
               d \in {IF s[j] = "{" THEN depth + 1
                      ELSE IF s[j] = "}" THEN depth - 1 ELSE depth}})

\* str.strip()
BibStrip(s) ==
    IF \A j \in 1..Len(s) : IsBibSpace(s[j]) THEN <<>>
    ELSE SubSeq(s, SetMin({j \in 1..Len(s) : ~IsBibSpace(s[j])}),
                   SetMax({j \in 1..Len(s) : ~IsBibSpace(s[j])}))

\* " ".join(value.strip().split())
BibSpaceToBlank(s) == [i \in 1..Len(s) |-> IF IsBibSpace(s[i]) THEN " " ELSE s[i]]
JoinSplit(value) == Strip(CollapseSpaces(BibSpaceToBlank(value)))

\* line 129: the braced value that the scan from start ended at [j, depth]
BracedValue(s, start, scan) ==
    IF scan.depth = 0 THEN SubSeq(s, start, scan.j - 2) ELSE SubSeq(s, start, Len(s))

\* lines 131-136: the position of the closing quote, Len(s) + 1 without one
QuoteEnd(s, start) ==
    IF \E k \in start..Len(s) : s[k] = "\"" /\ s[k - 1] # "\\"
    THEN SetMin({k \in start..Len(s) : s[k] = "\"" /\ s[k - 1] # "\\"})
    ELSE Len(s) + 1

\* lines 117-144: [value, next position] of the value that starts at i
FieldValue(s, i) ==
    IF s[i] = "{"
    THEN [value |-> BracedValue(s, i + 1, DepthScan(s, i + 1, 1)),
          next  |-> DepthScan(s, i + 1, 1).j]
    ELSE IF s[i] = "\""
    THEN [value |-> SubSeq(s, i + 1, QuoteEnd(s, i + 1) - 1),
          next  |-> IF QuoteEnd(s, i + 1) <= Len(s) THEN QuoteEnd(s, i + 1) + 1
                    ELSE Len(s) + 1]
    ELSE [value |-> SubSeq(s, i, RunEnd(s, i, IsBareChar) - 1),
          next  |-> RunEnd(s, i, IsBareChar)]

\* line 104: re.match(r"([A-Za-z][A-Za-z0-9_-]*)\s*=") at position i: the
\* position of "=", 0 without a match
NameMatch(s, i) ==
    IF i > Len(s) \/ s[i] \notin BibLetters THEN 0
    ELSE IF RunEnd(s, RunEnd(s, i + 1, IsNameChar), IsBibSpace) <= Len(s)
            /\ s[RunEnd(s, RunEnd(s, i + 1, IsNameChar), IsBibSpace)] = "="
    THEN RunEnd(s, RunEnd(s, i + 1, IsNameChar), IsBibSpace)
    ELSE 0

\* fields[field_name] = ...: a later value replaces an earlier one
SetField(fields, name, value) ==
    [f \in (DOMAIN fields) \cup {name} |-> IF f = name THEN value ELSE fields[f]]

\* fields.get(name, "")
GetField(fields, name) == IF name \in DOMAIN fields THEN fields[name] ELSE <<>>

NoFields == [f \in {} |-> <<>>]

\* lines 94-95: fields = {}, i = 0
FieldsStart == [pos |-> 1, fields |-> NoFields, done |-> FALSE]

\* lines 105-107: no field name at i: i += 1, continue
NoFieldAt(st, i) == [st EXCEPT !.pos = i + 1]

\* lines 109-146: the field whose name starts at start and whose value
\* starts at i; lines 114-115 break at the end of the text
FieldsTurnAfterName(s, st, start, i) ==
    IF i > Len(s) THEN [st EXCEPT !.pos = i, !.done = TRUE]
    ELSE Only({[st EXCEPT !.pos = v.next,
                          !.fields = SetField(@, LowerStr(SubSeq(s, start,
                                                  RunEnd(s, start + 1, IsNameChar) - 1)),
                                              JoinSplit(v.value))] :
               v \in {FieldValue(s, i)}})

\* lines 101-146: the turn once the separators are skipped up to i; lines
\* 101-102 break at the end of the text
FieldsTurnAt(s, st, i) ==
    IF i > Len(s) THEN [st EXCEPT !.pos = i, !.done = TRUE]
    ELSE IF NameMatch(s, i) = 0 THEN NoFieldAt(st, i)
    ELSE Only({FieldsTurnAfterName(s, st, i, j) :
               j \in {RunEnd(s, NameMatch(s, i) + 1, IsBibSpace)}})

\* lines 98-146: one turn of  while i < n
FieldsTurn(s, st) ==
    Only({FieldsTurnAt(s, st, i) : i \in {RunEnd(s, st.pos, IsSeparator)}})

\* lines 98-148: the turns of the loop from st on, up to a break or to the
\* end of the text
RECURSIVE FieldsLoop(_, _)
FieldsLoop(s, st) ==
    IF st.done \/ st.pos > Len(s) THEN st
    ELSE Only({FieldsLoop(s, after) : after \in {FieldsTurn(s, st)}})

_parse_bib_fields(fields_text) == FieldsLoop(fields_text, FieldsStart).fields

\* line 164: re.match(r"@(\w+)\s*\{") at position at: the position of the
\* opening brace, 0 without a match
HeaderMatch(s, at) ==
    IF RunEnd(s, at + 1, IsWordChar) = at + 1 THEN 0
    ELSE IF RunEnd(s, RunEnd(s, at + 1, IsWordChar), IsBibSpace) <= Len(s)
            /\ s[RunEnd(s, RunEnd(s, at + 1, IsWordChar), IsBibSpace)] = "{"
    THEN RunEnd(s, RunEnd(s, at + 1, IsWordChar), IsBibSpace)
    ELSE 0

TitleName == <<"t", "i", "t", "l", "e">>

\* lines 191-208: the entry of the block with its first comma at position comma
BibEntry(content, at, block, comma) ==
    [key        |-> BibStrip(SubSeq(block, 1, comma - 1)),
     entry_type |-> LowerStr(SubSeq(content, at + 1, RunEnd(content, at + 1, IsWordChar) - 1)),
     file       |-> BibFile,
     line       |-> LineNo(content, at),
     title      |-> Only({GetField(_parse_bib_fields(body), TitleName) :
                              body \in {SubSeq(block, comma + 1, Len(block))}})]

\* lines 182-210: what a record whose brace scan ended at [j, depth] does to
\* [pos, entries, done]
AfterScan(content, st, at, open_brace, scan) ==
    IF scan.depth # 0 THEN [st EXCEPT !.done = TRUE]
    ELSE IF FindFrom(SubSeq(content, open_brace + 1, scan.j - 2), ",", 1) = 0
    THEN [st EXCEPT !.pos = scan.j]
    ELSE Only({[st EXCEPT !.pos = scan.j,
                          !.entries = Append(@, BibEntry(content, at, block, comma))] :
               block \in {SubSeq(content, open_brace + 1, scan.j - 2)},
               comma \in {FindFrom(SubSeq(content, open_brace + 1, scan.j - 2), ",", 1)}})

\* a slip that leaves the position at an "@" that opens no record
AtHeaderStays(content, st, at, open_brace) ==
    IF open_brace = 0 THEN [st EXCEPT !.pos = at]
    ELSE Only({AfterScan(content, st, at, open_brace, scan) :
               scan \in {DepthScan(content, open_brace + 1, 1)}})

\* lines 164-210: the "@" at position at, with the opening brace of its
\* header at open_brace (0 without a header, lines 165-167: i = at_index + 1)
AtHeader(content, st, at, open_brace) ==
    IF open_brace = 0 THEN [st EXCEPT !.pos = at + 1]
    ELSE Only({AfterScan(content, st, at, open_brace, scan) :
               scan \in {DepthScan(content, open_brace + 1, 1)}})

\* lines 159-210: one turn of  while i < len(content)
ScanTurn(content, st) ==
    IF FindFrom(content, "@", st.pos) = 0 THEN [st EXCEPT !.done = TRUE]
    ELSE Only({AtHeader(content, st, at, HeaderMatch(content, at)) :
               at \in {FindFrom(content, "@", st.pos)}})

ScanStart == [pos |-> 1, entries |-> <<>>, done |-> FALSE]

----------------------------------------------------------------------------
(* verify_content_targets.py: _verify_figures                               *)
(* A figure record carries what the checks read: file, line, label (a      *)
(* token sequence, <<>> for ""), caption (the length of the whitespace-    *)
(* collapsed caption text), width (the first width factor of the block in  *)
(* tenths, 0 when the block has none) and hspace (the block holds an       *)
(* \hspace with a negative argument).  has_label and has_caption are the   *)
(* two flags the structure parser stores beside them.                      *)

\* line 169: sum(1 for ref in refs if ref["key"] == label) if label else 0
ref_count(label, rs) ==
    IF label # <<>> THEN Count(rs, LAMBDA r : r.key = label) ELSE 0

\* label or None
LabelOrNone(label) == IF label = <<>> THEN None ELSE label

\* lines 171-179: the entity of one figure
FigureEntity(fig, rs) ==
    [file |-> fig.file, line |-> fig.line, label |-> fig.label,
     caption |-> fig.caption, ref_count |-> ref_count(fig.label, rs)]

\* a slip that reports a figure as unreferenced whatever the references
NotReferencedAlways(label, rs) == TRUE

\* line 201: label not in ref_keys
NotReferenced(label, rs) == label \notin RecordKeys(rs)

\* lines 181-210: missing_label, label_prefix or unreferenced
FigureLabelIssues(fig, rs) ==
    IF fig.label = <<>>
    THEN << [type |-> "missing_label", severity |-> "error",
             file |-> fig.file, line |-> fig.line] >>
    ELSE IF ~StartsWith(fig.label, "fig:")
    THEN << [type |-> "label_prefix", severity |-> "warning",
             file |-> fig.file, line |-> fig.line, label |-> fig.label,
             expected |-> "fig:*"] >>
    ELSE IF NotReferenced(fig.label, rs)
    THEN << [type |-> "unreferenced", severity |-> "warning",
             file |-> fig.file, line |-> fig.line, label |-> fig.label] >>
    ELSE <<>>

\* line 222: len(caption) < 20
ShortCaption == 20

\* lines 212-231: missing_caption or caption_too_short
CaptionIssues(fig) ==
    IF fig.caption = 0
    THEN << [type |-> "missing_caption", severity |-> "warning",
             file |-> fig.file, line |-> fig.line,
             label |-> LabelOrNone(fig.label)] >>
    ELSE IF fig.caption < ShortCaption
    THEN << [type |-> "caption_too_short", severity |-> "info",
             file |-> fig.file, line |-> fig.line,
             label |-> LabelOrNone(fig.label)] >>
    ELSE <<>>

\* line 237: float(width_match.group(1)) > 1.0, in tenths
FullWidth == 10

\* lines 233-258: overflow_width and negative_hspace
LayoutIssues(fig) ==
    (IF fig.width # 0 /\ fig.width > FullWidth
     THEN << [type |-> "overflow_width", severity |-> "warning",
              file |-> fig.file, line |-> fig.line,
              label |-> LabelOrNone(fig.label), value |-> fig.width] >>
     ELSE <<>>)
    \o
    (IF fig.hspace
     THEN << [type |-> "negative_hspace", severity |-> "warning",
              file |-> fig.file, line |-> fig.line,
              label |-> LabelOrNone(fig.label)] >>
     ELSE <<>>)

FigureIssues(fig, rs) ==
    FigureLabelIssues(fig, rs) \o CaptionIssues(fig) \o LayoutIssues(fig)

\* lines 158-260, from the extracted figure records on
_verify_figures(figs, rs) ==
    [entities |-> [i \in 1..Len(figs) |-> FigureEntity(figs[i], rs)],
     issues   |-> Concat([i \in 1..Len(figs) |-> FigureIssues(figs[i], rs)])]

----------------------------------------------------------------------------
(* verify_content_targets.py: _verify_section                               *)
(* A section record carries name (a sequence of characters), level, file,  *)
(* line and content, the sequence of its body lines.  A body line is one   *)
(* of the texts of BodyLines.                                               *)

BodyLines == {"", "text", "TODO", "we show", "we show \\cite{a}"}

\* the number of words of a body line
LineWords(line) ==
    CASE line = "" -> 0 [] line = "text" -> 1 [] line = "TODO" -> 1
      [] line = "we show" -> 2 [] line = "\\paragraph{x}" -> 1 [] OTHER -> 3

\* line 403: the words of the content
WordCount(content) == SumSeq([i \in 1..Len(content) |-> LineWords(content[i])])

\* line 418: \b(TODO|TBD|FIXME|XXX)\b
HasPlaceholder(line) == line = "TODO"

\* line 431: a claim phrase, line 436: no \cite and no \ref beside it
UnsupportedClaim(line) == line = "we show"

\* line 450: more than 220 words in one paragraph
LongParagraph == 220

\* a slip that takes the last section that matches
LastMatch(secs, name) ==
    LET hits == {i \in 1..Len(secs) : IsSubstring(LowerStr(name), LowerStr(secs[i].name))}
    IN  IF hits = {} THEN 0 ELSE SetMax(hits)

\* line 386: next((s for s in sections if section_name.lower() in
\* str(s["name"]).lower()), None): the index of the section, 0 for None
FirstMatch(secs, name) ==
    LET hits == {i \in 1..Len(secs) : IsSubstring(LowerStr(name), LowerStr(secs[i].name))}
    IN  IF hits = {} THEN 0 ELSE SetMin(hits)

\* lines 388-399
SectionNotFound(secs, name) ==
    [entities |-> <<>>,
     issues   |-> << [type |-> "section_not_found", severity |-> "error",
                      section |-> name] >>,
     available_sections |-> [i \in 1..Len(secs) |-> secs[i].name]]

\* lines 407-416
TooShortIssues(sec, min_words) ==
    IF WordCount(sec.content) < min_words
    THEN << [type |-> "section_too_short", severity |-> "warning", section |-> sec.name,
             word_count |-> WordCount(sec.content), minimum |-> min_words] >>
    ELSE <<>>

\* lines 418-429: one issue per body line with a placeholder, line counted
\* within the content
PlaceholderIssues(sec) ==
    LET at == SelectSeq([i \in 1..Len(sec.content) |-> i],
                        LAMBDA i : HasPlaceholder(sec.content[i]))
    IN  [n \in 1..Len(at) |->
            [type |-> "placeholder_text", severity |-> "warning", section |-> sec.name,
             line |-> at[n], content |-> sec.content[at[n]]]]

\* lines 431-445
ClaimIssues(sec) ==
    LET at == SelectSeq([i \in 1..Len(sec.content) |-> i],
                        LAMBDA i : UnsupportedClaim(sec.content[i]))
    IN  [n \in 1..Len(at) |->
            [type |-> "potential_unsupported_claim", severity |-> "info",
             section |-> sec.name, line |-> at[n], content |-> sec.content[at[n]]]]

\* lines 447-458: the paragraphs are the runs of lines between blank lines
ParagraphStarts(content) ==
    SelectSeq([i \in 1..Len(content) |-> i],
              LAMBDA i : content[i] # "" /\ (i = 1 \/ content[i - 1] = ""))

ParagraphWords(content, start) ==
    WordCount(SubSeq(content, start, RunEnd(content, start, LAMBDA l : l # "") - 1))

LongParagraphIssues(sec) ==
    LET long == SelectSeq(ParagraphStarts(sec.content),
                          LAMBDA i : ParagraphWords(sec.content, i) > LongParagraph)
    IN  [n \in 1..Len(long) |->
            [type |-> "paragraph_too_long", severity |-> "info", section |-> sec.name,
             word_count |-> ParagraphWords(sec.content, long[n])]]

\* lines 401-470
SectionFound(sec, min_words) ==
    [entities |-> << [name |-> sec.name, file |-> sec.file, line |-> sec.line,
                      word_count |-> WordCount(sec.content)] >>,
     issues   |-> TooShortIssues(sec, min_words) \o PlaceholderIssues(sec)
                  \o ClaimIssues(sec) \o LongParagraphIssues(sec)]

\* lines 379-470, from the extracted sections on
_verify_section(secs, name, min_words) ==
    IF FirstMatch(secs, name) = 0 THEN SectionNotFound(secs, name)
    ELSE SectionFound(secs[FirstMatch(secs, name)], min_words)

----------------------------------------------------------------------------
(* verify_content_targets.py: _collect_main_tex_tree                        *)
(* parse_latex_structure.py:  _extract_sections (the traversal)             *)
(* A file stands for its resolved path.  includes[f] lists, in textual      *)
(* order, what _resolve_include returns for the inclusion directives of f   *)
(* that survive _strip_comment: a file, or None for a target that does not  *)
(* resolve.                                                                  *)

WalkFiles == {"main.tex", "a.tex", "b.tex", "c.tex"}
main_tex  == "main.tex"

Directives == WalkFiles \X (WalkFiles \cup {None})

\* the inclusion directives of file f among the directives es of the project
IncludesOf(es, f) ==
    LET mine == SelectSeq(es, LAMBDA e : e[1] = f)
    IN  [i \in 1..Len(mine) |-> mine[i][2]]

\* a slip that never finds a file visited
AlreadyVisitedNever(resolved, vis) == FALSE

\* lines 87-88 / 98-99: if resolved in visited: return
AlreadyVisited(resolved, vis) == resolved \in vis

\* a slip that follows the directives of a file from the last to the first
DirectiveFromEnd(incl, f, i) == incl[f][Len(incl[f]) + 1 - i]

\* lines 97-100 / 107-128: the i-th inclusion directive of f, resolved
Directive(incl, f, i) == incl[f][i]

\* one call walk(path) up to its loop over the lines: the state it leaves
\* behind.  A file that is already visited, or whose read raises OSError,
\* returns at once; any other file gets a frame on the call stack.
WalkCall(path, collect) ==
    IF AlreadyVisited(path, visited)
    THEN [visited |-> visited, ordered |-> ordered, stack |-> stack, processed |-> processed]
    ELSE [visited   |-> visited \cup {path},
          ordered   |-> IF collect THEN Append(ordered, path) ELSE ordered,
          processed |-> [processed EXCEPT ![path] = @ + 1],
          stack     |-> IF path = unreadable THEN stack
                        ELSE Append(stack, [file |-> path, next |-> 1])]

\* the call stack after the running frame moved on to its next directive
Advanced == [stack EXCEPT ![Len(stack)].next = @ + 1]

Top == stack[Len(stack)]

AfterCall(st) ==
    /\ visited' = st.visited
    /\ ordered' = st.ordered
    /\ stack' = st.stack
    /\ processed' = st.processed
    /\ pc' = IF st.stack = <<>> THEN "walk_done" ELSE "walking"

WalkFrame == <<citations, bib_entries, local_issues, issues, max_issues, refs, figures,
               tables, includes, unreadable, titleVars, remoteVars, runVars, sourceVars, verifyVars>>

\* walk(main_tex): line 104 / line 132
WalkStart(w) ==
    /\ pc = "walk_start"
    /\ walker' = w
    /\ AfterCall(WalkCall(main_tex, w = "collect"))
    /\ UNCHANGED WalkFrame

\* the running walk reaches its next inclusion directive: when the target
\* resolves, walk(include_path)
WalkInclude(w) ==
    /\ pc = "walking" /\ walker = w
    /\ Top.next <= Len(includes[Top.file])
    /\ LET include_path == Directive(includes, Top.file, Top.next)
       IN  IF include_path = None
           THEN /\ stack' = Advanced
                /\ UNCHANGED <<visited, ordered, processed, pc>>
           ELSE LET st == WalkCall(include_path, w = "collect")
                IN  AfterCall([st EXCEPT !.stack =
                        IF Len(st.stack) > Len(stack)
                        THEN Append(Advanced, st.stack[Len(st.stack)])
                        ELSE Advanced])
    /\ UNCHANGED <<walker, WalkFrame>>

\* the running walk has no directive left: it returns to its caller
WalkReturn(w) ==
    /\ pc = "walking" /\ walker = w
    /\ Top.next > Len(includes[Top.file])
    /\ stack' = SubSeq(stack, 1, Len(stack) - 1)
    /\ pc' = IF Len(stack) = 1 THEN "walk_done" ELSE "walking"
    /\ UNCHANGED <<visited, ordered, processed, walker, WalkFrame>>

----------------------------------------------------------------------------
(* validate_citations.py: the remote pass (_validate_by_doi,                *)
(* _validate_by_title, main lines 480-533)                                  *)
(* A DOI is a sequence of tokens; DoiUrl stands for a resolver prefix       *)
(* "https://doi.org/".  What _http_get_json does is one of                  *)
(*   [kind |-> "error"]                it raises (network error, timeout,   *)
(*                                     body that is no JSON)                *)
(*   [kind |-> "not_mapping"]          the parsed body is no mapping        *)
(*   [kind |-> "message_not_mapping"]  its "message" is no mapping          *)
(*   [kind |-> "ok", ...]              a mapping with a mapping "message"   *)

DoiUrl == "https://doi.org/"

\* the titles and identifiers of the entries and of the service's answers
LocalTitles  == { <<>>, <<"a", " ", "b", " ", "c">>, <<"-">> }
AnswerTitles == { <<>>,
                  <<"a", " ", "b", " ", "c">>,
                  <<"a", " ", "b">>,
                  <<"c", " ", "b", " ", "a", " ", "d">>,
                  <<"c", " ", "b", " ", "a", " ", "d", " ", "x">>,
                  <<"a", " ", "d">> }
ItemTitles   == { <<"a", " ", "b", " ", "c">>,
                  <<"x">>,
                  <<"c", " ", "b", " ", "a", " ", "d">>,
                  <<"c", " ", "b", " ", "a", " ", "d", " ", "x">> }
LocalDois    == { <<>>, <<"X">>, <<DoiUrl, "x">>, <<DoiUrl>> }
AnswerDois   == { <<>>, <<"x">>, <<"y">> }

NotMapping == [kind |-> "not_mapping"]
Failures   == { [kind |-> "error"], NotMapping, [kind |-> "message_not_mapping"] }

\* answers to GET /works/<doi>: message.title[0], or "" without a title
DoiPayloads == Failures \cup [kind : {"ok"}, title : AnswerTitles]

\* answers to GET /works?query.title=...: message.items
Items == {NotMapping} \cup [kind : {"ok"}, title : ItemTitles, doi : AnswerDois]
TitlePayloads == Failures \cup [kind : {"ok"}, items : BoundedSeq(Items, MaxItems)]

NoLookup  == [kind |-> "none"]
NoLookups == [doi |-> NoLookup, title |-> NoLookup]
NoResult  == [status |-> "none"]
\* an exception no handler catches
Raised    == [status |-> "raised"]

NotFound(message) == [status |-> "not_found", message |-> message]

\* line 260: re.sub(r"^https?://(dx\.)?doi\.org/", "", entry.doi.strip())
StripDoiPrefix(doi) == IF doi # <<>> /\ Head(doi) = DoiUrl THEN Tail(doi) ELSE doi

\* a slip that asks for more than the threshold
DoiTitleMatchesStrictly(s) == ScoreGT(s, Frac(3, 5))

\* line 279: score >= 0.6
DoiTitleMatches(s) == ScoreGE(s, Frac(3, 5))

\* lines 277-292: the result for the canonical title remote_title, scored s
DoiVerdict(doi, remote_title, s) ==
    IF DoiTitleMatches(s)
    THEN [status |-> "valid", confidence |-> s,
          message |-> "DOI verified in Crossref",
          remote |-> [doi |-> doi, title |-> remote_title]]
    ELSE [status |-> "needs_correction", confidence |-> s,
          message |-> "DOI exists but title mismatch",
          remote |-> [doi |-> doi, title |-> remote_title]]

\* _validate_by_doi from the answer of _http_get_json on
_validate_by_doi(entry, payload) ==
    IF StripDoiPrefix(entry.doi) = <<>> THEN NotFound("Empty DOI")
    ELSE IF payload.kind = "error" THEN NotFound("DOI lookup failed")
    ELSE IF payload.kind # "ok" THEN Raised
    ELSE DoiVerdict(StripDoiPrefix(entry.doi), payload.title,
                    _title_match_score(entry.title, payload.title))

\* a slip that lets a later candidate of equal score replace the kept one
BetterOrEqual(s, best_score) == ScoreGE(s, best_score)

\* line 328: score > best_score
Better(s, best_score) == ScoreGT(s, best_score)

\* lines 319-333: the loop over the candidates from the i-th on; best is the
\* index of the candidate kept so far, 0 for None
RECURSIVE BestFrom(_, _, _, _, _)
\* lines 327-333: the i-th candidate, scored s, against the one kept so far
BestStep(title, items, i, best, best_score, s) ==
    IF Better(s, best_score) THEN BestFrom(title, items, i + 1, i, s)
    ELSE BestFrom(title, items, i + 1, best, best_score)

BestFrom(title, items, i, best, best_score) ==
    IF i > Len(items) THEN [best |-> best, best_score |-> best_score]
    ELSE BestStep(title, items, i, best, best_score,
                  _title_match_score(title, items[i].title))

LowerDoi(doi) == [i \in 1..Len(doi) |-> Lower(doi[i])]

\* line 338: best_score >= 0.75
TitleSearchMatches(s) == ScoreGE(s, Frac(3, 4))

\* lines 338-365: the result for the candidate kept, best, scored best_score
KeptVerdict(entry, best, best_score) ==
    IF TitleSearchMatches(best_score)
    THEN IF /\ entry.doi # <<>> /\ best.doi # <<>>
            /\ LowerDoi(entry.doi) # LowerDoi(best.doi)
         THEN [status |-> "needs_correction", confidence |-> best_score,
               message |-> "Best title match suggests DOI correction",
               remote |-> best]
         ELSE IF entry.doi = <<>> /\ best.doi # <<>>
         THEN [status |-> "needs_correction", confidence |-> best_score,
               message |-> "Matching paper found; DOI can be added",
               remote |-> best]
         ELSE [status |-> "valid", confidence |-> best_score,
               message |-> "Title validated against Crossref",
               remote |-> best]
    ELSE [status |-> "needs_correction", confidence |-> best_score,
          message |-> "Only weak title match found", remote |-> best]

\* a slip that reports a weak match when no candidate was kept
TitleVerdictAlwaysKept(entry, items, b) ==
    IF b.best = 0
    THEN [status |-> "needs_correction", confidence |-> Zero,
          message |-> "Only weak title match found", remote |-> None]
    ELSE KeptVerdict(entry,
                     [title |-> items[b.best].title, doi |-> items[b.best].doi],
                     b.best_score)

\* lines 335-365: the result once the loop over the candidates has ended at b
TitleVerdict(entry, items, b) ==
    IF b.best = 0
    THEN [status |-> "likely_hallucinated", message |-> "No usable Crossref match"]
    ELSE KeptVerdict(entry,
                     [title |-> items[b.best].title, doi |-> items[b.best].doi],
                     b.best_score)

\* _validate_by_title from the answer of _http_get_json on
_validate_by_title(entry, payload) ==
    IF Strip(entry.title) = <<>> THEN NotFound("No title for remote validation")
    ELSE IF payload.kind = "error" THEN NotFound("Title lookup failed")
    ELSE IF payload.kind # "ok" THEN Raised
    ELSE IF payload.items = <<>>
    THEN [status |-> "likely_hallucinated", message |-> "No Crossref results for title"]
    ELSE IF \E i \in 1..Len(payload.items) : payload.items[i] = NotMapping THEN Raised
    ELSE TitleVerdict(entry, payload.items,
                      BestFrom(entry.title, payload.items, 1, 0, Zero))

\* a slip that falls back whenever the identifier path did not say valid
NeedsFallbackUnlessValid(res, entry) == res.status # "valid" /\ entry.title # <<>>

\* line 486: result.get("status") == "not_found" and entry.title
NeedsFallback(res, entry) == res.status = "not_found" /\ entry.title # <<>>

\* lines 498-506: the record appended to validation_results
ValidationRecord(entry, res) ==
    [key        |-> entry.key,
     status     |-> res.status,
     confidence |-> IF "confidence" \in DOMAIN res THEN res.confidence ELSE Zero,
     message    |-> res.message,
     remote     |-> IF "remote" \in DOMAIN res THEN res.remote ELSE None]

\* lines 508-511: the histogram of the statuses
status_counts(results) ==
    [st \in {results[i].status : i \in 1..Len(results)} |->
        Count(results, LAMBDA r : r.status = st)]

Entry == remote_entries[entry_i]

RemoteFrame == <<citations, bib_entries, issues, max_issues, refs, figures, tables,
                 remote_entries, titleVars, walkVars, runVars, sourceVars, verifyVars>>

\* main with --remote, up to the loop over the entries
RemoteStart ==
    /\ pc = "remote_start"
    /\ local_issues' = LocalIssues(citations, bib_entries)
    /\ entry_i' = 1
    /\ pc' = "remote_loop"
    /\ UNCHANGED <<lookups, requests, result, validation_results, RemoteFrame>>

\* lines 484-485: the entry has an identifier
ValidateByDoi ==
    /\ pc = "remote_loop" /\ entry_i <= Len(remote_entries)
    /\ Entry.doi # <<>>
    /\ \E payload \in DoiPayloads : \E res \in {_validate_by_doi(Entry, payload)} :
          LET sent == StripDoiPrefix(Entry.doi) # <<>>
          IN  /\ requests' = IF sent THEN Append(requests, [entry |-> entry_i, via |-> "doi"])
                             ELSE requests
              /\ lookups' = [doi |-> IF sent THEN payload ELSE NoLookup, title |-> NoLookup]
              /\ IF res.status = "raised"
                 THEN pc' = "crashed" /\ result' = result
                 ELSE pc' = "remote_after_doi" /\ result' = res
    /\ UNCHANGED <<entry_i, validation_results, local_issues, RemoteFrame>>

\* lines 486-489: the title search after an identifier lookup
FallbackByTitle ==
    /\ pc = "remote_after_doi"
    /\ NeedsFallback(result, Entry)
    /\ \E payload \in TitlePayloads : \E fallback \in {_validate_by_title(Entry, payload)} :
          LET sent == Strip(Entry.title) # <<>>
          IN  /\ requests' = IF sent THEN Append(requests, [entry |-> entry_i, via |-> "title"])
                             ELSE requests
              /\ lookups' = [lookups EXCEPT !.title = IF sent THEN payload ELSE NoLookup]
              /\ IF fallback.status = "raised"
                 THEN pc' = "crashed" /\ result' = result
                 ELSE /\ pc' = "remote_append"
                      /\ result' = IF fallback.status # "not_found" THEN fallback ELSE result
    /\ UNCHANGED <<entry_i, validation_results, local_issues, RemoteFrame>>

\* lines 490-491: no identifier, a title
ValidateByTitle ==
    /\ pc = "remote_loop" /\ entry_i <= Len(remote_entries)
    /\ Entry.doi = <<>> /\ Entry.title # <<>>
    /\ \E payload \in TitlePayloads : \E res \in {_validate_by_title(Entry, payload)} :
          LET sent == Strip(Entry.title) # <<>>
          IN  /\ requests' = IF sent THEN Append(requests, [entry |-> entry_i, via |-> "title"])
                             ELSE requests
              /\ lookups' = [doi |-> NoLookup, title |-> IF sent THEN payload ELSE NoLookup]
              /\ IF res.status = "raised"
                 THEN pc' = "crashed" /\ result' = result
                 ELSE pc' = "remote_append" /\ result' = res
    /\ UNCHANGED <<entry_i, validation_results, local_issues, RemoteFrame>>

\* a slip that sends the title search also for an entry without a title
NoDoiNoTitleSearches ==
    /\ pc = "remote_loop" /\ entry_i <= Len(remote_entries)
    /\ Entry.doi = <<>> /\ Entry.title = <<>>
    /\ result' = NotFound("No title for remote validation")
    /\ lookups' = NoLookups
    /\ requests' = Append(requests, [entry |-> entry_i, via |-> "title"])
    /\ pc' = "remote_append"
    /\ UNCHANGED <<entry_i, validation_results, local_issues, RemoteFrame>>

\* lines 492-496: neither an identifier nor a title
NoDoiNoTitle ==
    /\ pc = "remote_loop" /\ entry_i <= Len(remote_entries)
    /\ Entry.doi = <<>> /\ Entry.title = <<>>
    /\ result' = NotFound("No title or DOI for remote validation")
    /\ lookups' = NoLookups
    /\ pc' = "remote_append"
    /\ UNCHANGED <<entry_i, requests, validation_results, local_issues, RemoteFrame>>

\* a slip that moves on without recording a not_found result
AppendResultUnlessNotFound ==
    /\ \/ pc = "remote_append"
       \/ pc = "remote_after_doi" /\ ~NeedsFallback(result, Entry)
    /\ validation_results' = IF result.status = "not_found" THEN validation_results
                             ELSE Append(validation_results, ValidationRecord(Entry, result))
    /\ result' = NoResult
    /\ entry_i' = entry_i + 1
    /\ pc' = "remote_loop"
    /\ UNCHANGED <<lookups, requests, local_issues, RemoteFrame>>

\* lines 498-506: the entry's result is recorded, the loop moves on
AppendResult ==
    /\ \/ pc = "remote_append"
       \/ pc = "remote_after_doi" /\ ~NeedsFallback(result, Entry)
    /\ validation_results' = Append(validation_results, ValidationRecord(Entry, result))
    /\ result' = NoResult
    /\ entry_i' = entry_i + 1
    /\ pc' = "remote_loop"
    /\ UNCHANGED <<lookups, requests, local_issues, RemoteFrame>>

\* lines 508-533: the histogram, the payload, print, return 0
EmitReport ==
    /\ pc = "remote_loop" /\ entry_i > Len(remote_entries)
    /\ pc' = "remote_done"
    /\ UNCHANGED <<entry_i, lookups, requests, result, validation_results, local_issues,
                   RemoteFrame>>

----------------------------------------------------------------------------
(* Values the variables of a tool hold while another tool is being run *)

IdleTitle  == ta = <<>> /\ tb = <<>> /\ score = Zero
IdleLocal  == /\ citations = <<>> /\ bib_entries = <<>> /\ local_issues = <<>>
              /\ issues = <<>> /\ max_issues = 0
              /\ refs = <<>> /\ figures = <<>> /\ tables = <<>>
IdleWalk   == /\ includes = <<>> /\ unreadable = None /\ walker = Idle
              /\ visited = {} /\ ordered = <<>> /\ stack = <<>> /\ processed = <<>>
IdleRemote == /\ entry_i = 0 /\ lookups = NoLookups /\ requests = <<>> /\ result = NoResult
              /\ validation_results = <<>> /\ remote_entries = <<>>
IdleSource == text = <<>> /\ scanned = <<>>
IdleVerify == sections = <<>> /\ section_name = <<>> /\ target_result = NoResult
IdleRun    == invocation = <<>> /\ outcome = <<>>

----------------------------------------------------------------------------
(* Specification SpecTitle: _title_match_score applied to two titles *)

TitleChars == {"a", "B", " ", "-"}

\* titles with markup, braces and lower/upper case variants:
\*   \t{a}   \t*[o]{a b}   {B} a   \t{}   a b   b a   b   \t{a   a-b
SampleTitles ==
    { <<"\\", "t", "{", "a", "}">>,
      <<"\\", "t", "*", "[", "o", "]", "{", "a", " ", "b", "}">>,
      <<"{", "B", "}", " ", "a">>,
      <<"\\", "t", "{", "}">>,
      <<"a", " ", "b">>,
      <<"b", " ", "a">>,
      <<"b">>,
      <<"\\", "t", "{", "a">>,
      <<"a", "-", "b">> }

TitleInputs == BoundedSeq(TitleChars, MaxTitleLen) \cup SampleTitles

InitTitle ==
    /\ pc = "title_in"
    /\ ta \in TitleInputs
    /\ tb \in TitleInputs
    /\ score = Zero
    /\ IdleLocal /\ IdleWalk /\ IdleRemote /\ IdleSource /\ IdleVerify /\ IdleRun

ScoreTitles ==
    /\ pc = "title_in"
    /\ score' = _title_match_score(ta, tb)
    /\ pc' = "title_done"
    /\ UNCHANGED <<ta, tb, localVars, walkVars, remoteVars, runVars, sourceVars, verifyVars>>

NextTitle == ScoreTitles

SpecTitle == InitTitle /\ [][NextTitle]_vars

----------------------------------------------------------------------------
(* Claims about the title similarity score *)

\* C5 as stated: for every nonempty title t the score of t against itself is
\* 1.0, titles made only of punctuation or markup included, and the score of
\* the empty string against any x is 0.0.
C5_ReflexiveForEveryNonemptyTitle ==
    pc = "title_done" =>
        /\ (ta = tb /\ ta # <<>>) => ScoreEQ(score, One)
        /\ (ta = <<>> \/ tb = <<>>) => ScoreEQ(score, Zero)

\* C5 (amended): for every title t whose normalized form is nonempty the
\* score of t against itself is 1.0; a title whose normalized form is empty
\* (the empty string, or only punctuation or markup) scores 0.0 against
\* itself and against every x.
C5_ReflexiveOnNonemptyNormalForm ==
    pc = "title_done" =>
        /\ (ta = tb /\ _normalize_title(ta) # <<>>) => ScoreEQ(score, One)
        /\ (_normalize_title(ta) = <<>> \/ _normalize_title(tb) = <<>>)
               => ScoreEQ(score, Zero)

\* a title with markup scored against itself
C5_Witness ==
    /\ pc = "title_done" /\ ta = tb
    /\ Len(_normalize_title(ta)) > 0 /\ Len(_normalize_title(ta)) < Len(ta)
    /\ ScoreEQ(score, One)

\* C6: the score is symmetric, score(a, b) = score(b, a), on the identical,
\* the substring and the Jaccard branch alike.
C6_Symmetric ==
    pc = "title_done" => ScoreEQ(score, _title_match_score(tb, ta))

\* a pair on the substring branch: one normal form properly contains the other
C6_Witness ==
    /\ pc = "title_done"
    /\ _normalize_title(ta) # _normalize_title(tb)
    /\ IsSubstring(_normalize_title(ta), _normalize_title(tb))
    /\ ScoreEQ(score, SubstringScore)

----------------------------------------------------------------------------
(* Specification SpecLocal: the local checks of the citation validator      *)
(* (remote pass disabled) and the issue list of the structure parser, on   *)
(* the same extracted records                                               *)

InitLocal ==
    /\ pc = "local_start"
    /\ citations \in CitationLists
    /\ bib_entries \in BibLists
    /\ local_issues = <<>> /\ issues = <<>> /\ max_issues = 0
    /\ refs = <<>> /\ figures = <<>> /\ tables = <<>>
    /\ IdleTitle /\ IdleWalk /\ IdleRemote /\ IdleSource /\ IdleVerify /\ IdleRun

\* validate_citations.main without --remote: local checks, then the report
ValidatorMain ==
    /\ pc = "local_start"
    /\ local_issues' = LocalIssues(citations, bib_entries)
    /\ pc' = "validator_done"
    /\ UNCHANGED <<citations, bib_entries, issues, max_issues, refs, figures, tables,
                   titleVars, walkVars, remoteVars, runVars, sourceVars, verifyVars>>

\* parse_latex_structure.main from the extracted records on
ParserMain ==
    /\ pc = "local_start"
    /\ OnePerLine(bib_entries)
    /\ \E arg \in 0..MaxIssuesArg :
          /\ max_issues' = arg
          /\ issues' = _build_issues(citations, bib_entries, refs, figures, tables,
                                     MaxIssuesOption(arg))
    /\ pc' = "parser_done"
    /\ UNCHANGED <<citations, bib_entries, local_issues, refs, figures, tables,
                   titleVars, walkVars, remoteVars, runVars, sourceVars, verifyVars>>

NextLocal == ValidatorMain \/ ParserMain

SpecLocal == InitLocal /\ [][NextLocal]_vars

----------------------------------------------------------------------------
(* Claims about the undefined / uncited enumeration *)

CitedKeySet == {citations[i].key : i \in 1..Len(citations)}
BibKeySet   == {bib_entries[i].key : i \in 1..Len(bib_entries)}

IssueCount(list, type, key) ==
    Count(list, LAMBDA r : r.type = type /\ r.key = key)

\* exactly one issue of the type per key of S, none for any other key
ExactlyEnumerates(list, type, S) ==
    \A k \in Keys : IssueCount(list, type, k) = IF k \in S THEN 1 ELSE 0

\* at most one issue of the type per key of S, none for any other key
EnumeratesWithin(list, type, S) ==
    \A k \in Keys : IssueCount(list, type, k) <= IF k \in S THEN 1 ELSE 0

\* C1: local_issues of the citation validator holds exactly one
\* undefined_citation issue per key of (cited keys minus bibliography keys) and
\* none for another key, exactly one uncited_bibliography_entry issue per key of
\* (bibliography keys minus cited keys) and none for another key, and no key
\* gets both.
C1_ValidatorEnumeratesDifferences ==
    pc = "validator_done" =>
        /\ ExactlyEnumerates(local_issues, "undefined_citation", CitedKeySet \ BibKeySet)
        /\ ExactlyEnumerates(local_issues, "uncited_bibliography_entry",
                             BibKeySet \ CitedKeySet)
        /\ \A k \in Keys :
              ~ /\ IssueCount(local_issues, "undefined_citation", k) > 0
                /\ IssueCount(local_issues, "uncited_bibliography_entry", k) > 0

\* one key cited twice and undefined, the other defined twice and uncited
C1_Witness ==
    /\ pc = "validator_done"
    /\ Len(citations) = 2 /\ Len(bib_entries) = 2
    /\ Cardinality(CitedKeySet \ BibKeySet) = 1
    /\ Cardinality(BibKeySet \ CitedKeySet) = 1
    /\ IssueCount(local_issues, "undefined_citation", citations[1].key) = 1
    /\ IssueCount(local_issues, "uncited_bibliography_entry", bib_entries[1].key) = 1

\* C2 as stated: for every value of --max-issues the issues list of the
\* structure parser holds exactly one undefined_citation issue per key of
\* (cited minus bibliography) and exactly one uncited_bibliography_entry issue
\* per key of (bibliography minus cited).
C2_ParserEnumeratesForEveryMaxIssues ==
    pc = "parser_done" =>
        /\ ExactlyEnumerates(issues, "undefined_citation", CitedKeySet \ BibKeySet)
        /\ ExactlyEnumerates(issues, "uncited_bibliography_entry", BibKeySet \ CitedKeySet)

\* C2 (amended): the issues list is cut to its first max(1, --max-issues)
\* issues.  It holds at most one undefined_citation issue per key of (cited
\* minus bibliography), at most one uncited_bibliography_entry issue per key of
\* (bibliography minus cited), none for any other key, and exactly one per key
\* whenever the number of those keys does not exceed max(1, --max-issues).
C2_ParserEnumeratesUpToMaxIssues ==
    pc = "parser_done" =>
        LET cap  == IF max_issues >= 1 THEN max_issues ELSE 1
            und  == CitedKeySet \ BibKeySet
            unc  == BibKeySet \ CitedKeySet
        IN  /\ Len(issues) <= cap
            /\ EnumeratesWithin(issues, "undefined_citation", und)
            /\ EnumeratesWithin(issues, "uncited_bibliography_entry", unc)
            /\ Cardinality(und) + Cardinality(unc) <= cap =>
                  /\ ExactlyEnumerates(issues, "undefined_citation", und)
                  /\ ExactlyEnumerates(issues, "uncited_bibliography_entry", unc)

\* an undefined key cited twice and an uncited key, both listed under a
\* --max-issues that keeps them
C2_Witness ==
    /\ pc = "parser_done" /\ max_issues = 2
    /\ Len(citations) = 2 /\ citations[1].key = citations[2].key
    /\ Cardinality(CitedKeySet \ BibKeySet) = 1
    /\ Cardinality(BibKeySet \ CitedKeySet) = 1
    /\ Len(issues) = 2

----------------------------------------------------------------------------
(* Specification SpecWalk: the inclusion-tree traversal of the verifier    *)
(* ("collect") and of the structure parser ("sections") over every project *)
(* of at most MaxDirectives inclusion directives.  The code is sequential  *)
(* and never waits, so a walk that can take a step takes it.               *)

InitWalk ==
    /\ pc = "walk_start"
    /\ \E es \in BoundedSeq(Directives, MaxDirectives) :
          includes = [f \in WalkFiles |-> IncludesOf(es, f)]
    /\ unreadable \in {None} \cup {f \in WalkFiles : includes[f] = <<>>}
    /\ walker = Idle
    /\ visited = {} /\ ordered = <<>> /\ stack = <<>>
    /\ processed = [f \in WalkFiles |-> 0]
    /\ IdleTitle /\ IdleLocal /\ IdleRemote /\ IdleSource /\ IdleVerify /\ IdleRun

CollectStart    == WalkStart("collect")
CollectInclude  == WalkInclude("collect")
CollectReturn   == WalkReturn("collect")
SectionsStart   == WalkStart("sections")
SectionsInclude == WalkInclude("sections")
SectionsReturn  == WalkReturn("sections")

NextWalk ==
    \/ CollectStart \/ CollectInclude \/ CollectReturn
    \/ SectionsStart \/ SectionsInclude \/ SectionsReturn

SpecWalk == InitWalk /\ [][NextWalk]_vars /\ WF_vars(NextWalk)

----------------------------------------------------------------------------
(* Claims about the inclusion-tree traversal *)

\* the files a file includes: the resolvable directives of a readable file
Children(f) == IF f = unreadable THEN {} ELSE Range(includes[f]) \ {None}

RECURSIVE ReachableFrom(_)
ReachableFrom(S) ==
    LET more == S \cup UNION {Children(f) : f \in S}
    IN  IF more = S THEN S ELSE ReachableFrom(more)

\* C3: the traversal (walk in _collect_main_tex_tree and in _extract_sections)
\* processes each resolved file at most once and always terminates, also with
\* self-inclusion and with files that include each other.
C3_WalkOnceAndTerminates ==
    /\ [](\A f \in WalkFiles : processed[f] <= 1)
    /\ <>(pc = "walk_done")

\* a finished walk over main.tex and a.tex including each other, a.tex also
\* including itself
C3_Witness ==
    /\ pc = "walk_done"
    /\ "a.tex" \in Children("main.tex")
    /\ {"a.tex", "main.tex"} \subseteq Children("a.tex")
    /\ processed["main.tex"] = 1 /\ processed["a.tex"] = 1

\* the first position of a sequence holding a member of S
FirstIn(seq, S) == SetMin({i \in 1..Len(seq) : seq[i] \in S})

\* depth-first pre-order, textual order: each file after the first is the
\* textually first not yet listed child of the most recently listed file that
\* still has a child not yet listed
PreOrder(ord) ==
    \A i \in 2..Len(ord) :
        LET seen == {ord[k] : k \in 1..(i - 1)}
            open == {j \in 1..(i - 1) : Children(ord[j]) \ seen # {}}
        IN  /\ open # {}
            /\ LET parent == ord[SetMax(open)]
               IN  ord[i] = includes[parent][FirstIn(includes[parent],
                                                     Children(parent) \ seen)]

\* C4: the list _collect_main_tex_tree returns starts with the entry file,
\* holds exactly the files reachable from it through resolvable inclusion
\* directives, each once, and lists them in depth-first pre-order, the
\* directives of a file followed in textual order.
C4_CollectIsPreOrderOfReachable ==
    (pc = "walk_done" /\ walker = "collect") =>
        /\ ordered[1] = main_tex
        /\ Range(ordered) = ReachableFrom({main_tex})
        /\ \A i, j \in 1..Len(ordered) : ordered[i] = ordered[j] => i = j
        /\ PreOrder(ordered)

\* main.tex includes a.tex then b.tex, a.tex includes c.tex: depth first
\* lists c.tex before b.tex
C4_Witness ==
    /\ pc = "walk_done" /\ walker = "collect"
    /\ includes["main.tex"] = <<"a.tex", "b.tex">>
    /\ includes["a.tex"] = <<"c.tex">>
    /\ ordered = <<"main.tex", "a.tex", "c.tex", "b.tex">>

----------------------------------------------------------------------------
(* Specification SpecRemote: validate_citations.main with --remote over    *)
(* every bibliography of at most MaxEntries entries, the service answering *)
(* each request in any of the ways above                                    *)

\* the BibEntry records: key, doi and title (the fields the pass reads)
EntryKey(i) == KeyOrder[((i - 1) % Len(KeyOrder)) + 1]

InitRemote ==
    /\ pc = "remote_start"
    /\ \E n \in 0..MaxEntries :
          /\ remote_entries \in
                {es \in [1..n -> [key : Keys, doi : LocalDois, title : LocalTitles]] :
                    \A i \in 1..n : es[i].key = EntryKey(i)}
          /\ bib_entries = [i \in 1..n |-> [key |-> EntryKey(i), file |-> BibFile, line |-> i]]
    /\ citations = <<[key |-> "a", command |-> "cite", file |-> "main.tex", line |-> 1]>>
    /\ local_issues = <<>> /\ issues = <<>> /\ max_issues = 0
    /\ refs = <<>> /\ figures = <<>> /\ tables = <<>>
    /\ entry_i = 0 /\ lookups = NoLookups /\ requests = <<>> /\ result = NoResult
    /\ validation_results = <<>>
    /\ IdleTitle /\ IdleWalk /\ IdleSource /\ IdleVerify /\ IdleRun

NextRemote ==
    \/ RemoteStart \/ ValidateByDoi \/ FallbackByTitle \/ ValidateByTitle
    \/ NoDoiNoTitle \/ AppendResult \/ EmitReport

SpecRemote == InitRemote /\ [][NextRemote]_vars

----------------------------------------------------------------------------
(* Claims about the remote pass                                             *)
(* lookups holds the answers for one entry: the entry in hand between the   *)
(* dispatch and the append, the entry recorded last otherwise               *)

Subject == IF pc \in {"remote_after_doi", "remote_append", "crashed"} THEN entry_i
           ELSE Len(validation_results)

Recorded(i) == i >= 1 /\ Len(validation_results) >= i

Searched(i, via) == \E k \in 1..Len(requests) : requests[k] = [entry |-> i, via |-> via]

\* the identifier path ended in not_found: nothing left of the identifier
\* once the resolver prefix is removed, or the request raised
DoiNotFound == lookups.doi.kind \in {"none", "error"}

DoiScore(i) == _title_match_score(remote_entries[i].title, lookups.doi.title)

LowDoiScore(i) == lookups.doi.kind = "ok" /\ ~ScoreGE(DoiScore(i), Frac(3, 5))

\* C7 as stated: for an entry with an identifier (and a title to search for),
\* the title search is made both after a failed identifier lookup and after a
\* successful one whose canonical title scores below 0.6 against the local
\* title.
C7_FallbackAfterFailureOrLowScore ==
    \A i \in {Subject} :
        (Recorded(i) /\ remote_entries[i].doi # <<>> /\ remote_entries[i].title # <<>>
            /\ (lookups.doi.kind = "error" \/ LowDoiScore(i)))
        => Searched(i, "title")

\* C7 amended: for an entry with an identifier, the title search is made
\* exactly when the identifier path ends in not_found (the request failed, or
\* the identifier is empty without its resolver prefix) and the entry has a
\* title; after a successful lookup no title search is made, whatever the
\* score, and a score below 0.6 is recorded as needs_correction.
C7_FallbackExactlyAfterNotFound ==
    \A i \in {Subject} :
        (i >= 1 /\ remote_entries[i].doi # <<>>)
        => /\ Searched(i, "title") => (DoiNotFound /\ remote_entries[i].title # <<>>)
           /\ (Recorded(i) /\ DoiNotFound /\ remote_entries[i].title # <<>>)
                  => Searched(i, "title")
           /\ (Recorded(i) /\ LowDoiScore(i))
                  => validation_results[i].status = "needs_correction"

\* an entry recorded after a successful lookup with a low score and no title
\* search, following an entry whose failed lookup was followed by one
C7_Witness ==
    /\ pc = "remote_done" /\ Len(validation_results) = 2
    /\ remote_entries[2].doi # <<>> /\ remote_entries[2].title # <<>>
    /\ LowDoiScore(2)
    /\ Searched(2, "doi") /\ ~Searched(2, "title")
    /\ remote_entries[1].doi # <<>> /\ Searched(1, "doi") /\ Searched(1, "title")
    /\ validation_results[1].status = "not_found"

\* C8: when the identifier of an entry is looked up successfully, the status
\* recorded for the entry is valid if the canonical title scores at least 0.6
\* against the local title, and needs_correction if it scores less.
C8_DoiStatusByScore ==
    \A i \in {Subject} :
        (Recorded(i) /\ lookups.doi.kind = "ok")
        => validation_results[i].status =
              IF ScoreGE(DoiScore(i), Frac(3, 5)) THEN "valid" ELSE "needs_correction"

\* a score of exactly 0.6 recorded as valid
C8_Witness ==
    /\ Recorded(Subject) /\ lookups.doi.kind = "ok"
    /\ ScoreEQ(DoiScore(Subject), Frac(3, 5))
    /\ validation_results[Subject].status = "valid"
    /\ validation_results[Subject].remote.title = lookups.doi.title

\* the scores of the candidates of a title search, and the earliest candidate
\* of the highest score
ItemScores(i) ==
    [j \in 1..Len(lookups.title.items) |->
        _title_match_score(remote_entries[i].title, lookups.title.items[j].title)]

Highest(sc) ==
    CHOOSE j \in 1..Len(sc) :
        /\ \A k \in 1..Len(sc) : ScoreGE(sc[j], sc[k])
        /\ \A k \in 1..(j - 1) : ScoreGT(sc[j], sc[k])

\* a title search for a recorded entry came back with candidates
CandidatesReturned(i) ==
    /\ Recorded(i) /\ lookups.title.kind = "ok" /\ lookups.title.items # <<>>

\* two identifiers differ: both are there, and they are unequal once letter
\* case is folded (the local one taken as the entry records it)
Differ(local, remote) ==
    local # <<>> /\ remote # <<>> /\ LowerDoi(local) # LowerDoi(remote)

\* C9: on the title-search path the candidate kept is the earliest one of the
\* highest score; when that score is at least 0.75 the status is
\* needs_correction if the entry's identifier differs from the candidate's or
\* the entry has none and the candidate has one, and valid otherwise.
C9_KeepsHighestAndComparesIdentifiers ==
    \A i \in {Subject} :
        CandidatesReturned(i)
        => LET sc   == ItemScores(i)
               h    == Highest(sc)
               kept == lookups.title.items[h]
               e    == remote_entries[i]
           IN  ScoreGT(sc[h], Zero)
               => /\ validation_results[i].remote = [title |-> kept.title, doi |-> kept.doi]
                  /\ ScoreEQ(validation_results[i].confidence, sc[h])
                  /\ ScoreGE(sc[h], Frac(3, 4))
                        => validation_results[i].status =
                              IF Differ(e.doi, kept.doi) \/ (e.doi = <<>> /\ kept.doi # <<>>)
                              THEN "needs_correction" ELSE "valid"

\* two candidates tie at exactly 0.75 with different identifiers; the first
\* is kept and its identifier matches the local one up to letter case
C9_Witness ==
    /\ CandidatesReturned(Subject)
    /\ Len(lookups.title.items) = 2
    /\ \A j \in 1..2 : ScoreEQ(ItemScores(Subject)[j], Frac(3, 4))
    /\ lookups.title.items[1].doi = <<"x">> /\ lookups.title.items[2].doi = <<"y">>
    /\ remote_entries[Subject].doi = <<"X">>
    /\ validation_results[Subject].status = "valid"
    /\ validation_results[Subject].remote.doi = <<"x">>

\* the request made last for the entry did not give a usable answer
LastLookupFailed ==
    IF lookups.title.kind # "none"
    THEN \/ lookups.title.kind # "ok"
         \/ \E j \in 1..Len(lookups.title.items) : lookups.title.items[j] = NotMapping
    ELSE lookups.doi.kind \notin {"none", "ok"}

\* C10: a failed lookup (network error, timeout, unparsable body, an answer
\* that is no mapping, whose message is no mapping or with a candidate that
\* is no mapping) gives the entry not_found with a message, and no answer
\* ends the run with an uncaught exception: every entry is recorded and the
\* report is emitted.
C10_FailedLookupNeverAborts ==
    /\ pc # "crashed"
    /\ \A i \in {Subject} :
          (Recorded(i) /\ LastLookupFailed)
          => /\ validation_results[i].status = "not_found"
             /\ validation_results[i].message # ""
    /\ pc = "remote_done" => Len(validation_results) = Len(remote_entries)

\* C11: an entry with neither an identifier nor a title is recorded as
\* not_found, and no request is ever issued for it.
C11_NoRequestWithoutDoiAndTitle ==
    /\ \A k \in 1..Len(requests) :
          \/ remote_entries[requests[k].entry].doi # <<>>
          \/ remote_entries[requests[k].entry].title # <<>>
    /\ \A i \in 1..Len(validation_results) :
          (remote_entries[i].doi = <<>> /\ remote_entries[i].title = <<>>)
          => /\ validation_results[i].status = "not_found"
             /\ validation_results[i].message = "No title or DOI for remote validation"

\* the run has ended; its first entry had neither and was recorded not_found,
\* the only request issued was for the second entry
C11_Witness ==
    /\ pc = "remote_done" /\ Len(remote_entries) = 2
    /\ remote_entries[1].doi = <<>> /\ remote_entries[1].title = <<>>
    /\ validation_results[1].status = "not_found"
    /\ requests = <<[entry |-> 2, via |-> "title"]>>

\* the run has ended with its report printed (lines 513-533)
ReportEmitted == pc = "remote_done"

\* the local part of that report
ReportedLocalFindings ==
    [local_issues |-> local_issues, summary |-> summary(citations, bib_entries)]

\* the local part of the report of the run without --remote on the same files
LocalFindingsWithoutRemote ==
    [local_issues |-> LocalIssues(citations, bib_entries),
     summary      |-> summary(citations, bib_entries)]

\* the steps of the remote pass leave local_issues as the local checks set it
LocalIssuesKept ==
    pc # "remote_start" => local_issues = LocalIssues(citations, bib_entries)

\* C12: with the remote pass enabled the run reports the local findings
\* (local_issues and the summary counts) of the run without it, whatever the
\* service answers.
C12_LocalFindingsWhateverTheAnswers ==
    /\ LocalIssuesKept
    /\ pc \in {"remote_done", "crashed"}
          => ReportEmitted /\ ReportedLocalFindings = LocalFindingsWithoutRemote

----------------------------------------------------------------------------
(* Specification SpecFloats: the figure checks of the verifier and the     *)
(* issue list of the structure parser on the same figure and reference     *)
(* records                                                                  *)

FigureLabels  == {<<>>, <<"fig:", "r">>, <<"fig:", "s">>, <<"r">>}
CaptionLens   == {0, ShortCaption}
RefKeys       == {<<"fig:", "r">>, <<"fig:", "s">>, <<"r">>}

\* the i-th figure environment of main.tex, one environment per line
FigureAt(i, label, caption) ==
    [file |-> main_tex, line |-> i, label |-> label, caption |-> caption,
     has_label |-> label # <<>>, has_caption |-> caption > 0,
     width |-> 0, hspace |-> FALSE]

FigureLists ==
    UNION {{[i \in 1..n |-> FigureAt(i, ls[i], cl[i])] :
                ls \in [1..n -> FigureLabels], cl \in [1..n -> CaptionLens]} :
           n \in 0..MaxFigs}

\* what _extract_refs can return for main.tex
RefLists ==
    UNION {{[i \in 1..n |-> [key |-> ks[i], file |-> main_tex, line |-> i]] :
                ks \in [1..n -> RefKeys]} : n \in 0..MaxRefs}

InitFloats ==
    /\ pc = "local_start"
    /\ citations = <<>> /\ bib_entries = <<>>
    /\ local_issues = <<>> /\ issues = <<>> /\ max_issues = 0
    /\ figures \in FigureLists /\ refs \in RefLists /\ tables = <<>>
    /\ IdleTitle /\ IdleWalk /\ IdleRemote /\ IdleSource /\ IdleVerify /\ IdleRun

\* verify_content_targets.main with --target figures, from the extracted
\* records on
VerifyFigures ==
    /\ pc = "local_start"
    /\ target_result' = _verify_figures(figures, refs)
    /\ pc' = "verifier_done"
    /\ UNCHANGED <<localVars, titleVars, walkVars, remoteVars, runVars, sourceVars,
                   sections, section_name>>

NextFloats == VerifyFigures \/ ParserMain

SpecFloats == InitFloats /\ [][NextFloats]_vars

\* the number of cross-reference occurrences whose key is the label
RefsTo(label) == Count(refs, LAMBDA r : r.key = label)

PrefixedFigure(i) == StartsWith(figures[i].label, "fig:")

\* the unreferenced issues of the verifier anchored at figure i
UnreferencedAt(i) ==
    Count(target_result.issues,
          LAMBDA r : r.type = "unreferenced" /\ r.file = figures[i].file
                     /\ r.line = figures[i].line /\ r.label = figures[i].label)

\* the unreferenced_figure issues of the parser for the label
UnreferencedFor(label) ==
    Count(issues, LAMBDA r : r.type = "unreferenced_figure" /\ r.label = label)

OneIfUnreferenced(label) == IF RefsTo(label) = 0 THEN 1 ELSE 0

\* the verifier: ref_count is the number of occurrences, and the figure has
\* its unreferenced issue exactly when that number is 0
VerifierCountsReferences ==
    pc = "verifier_done" =>
        \A i \in 1..Len(figures) :
            PrefixedFigure(i) =>
                /\ target_result.entities[i].ref_count = RefsTo(figures[i].label)
                /\ UnreferencedAt(i) = OneIfUnreferenced(figures[i].label)

\* C13 as stated: for every figure whose label L starts with fig:, the
\* verifier reports as ref_count the number of reference occurrences with key
\* L and emits the unreferenced issue of that figure exactly when that number
\* is 0, and the structure parser emits the unreferenced_figure issue of L
\* exactly when no reference names L.
C13_UnreferencedExactlyWhenNoReference ==
    /\ VerifierCountsReferences
    /\ pc = "parser_done" =>
          \A i \in 1..Len(figures) :
              PrefixedFigure(i) =>
                  UnreferencedFor(figures[i].label) = OneIfUnreferenced(figures[i].label)

\* C13 (amended): the verifier part as stated.  The structure parser cuts its
\* issue list to the first max(1, --max-issues) issues: the list never holds
\* more than one unreferenced_figure issue of L, none when a reference names
\* L, and exactly one when no reference names L and the list is shorter than
\* max(1, --max-issues).
C13_UnreferencedUnlessCut ==
    /\ VerifierCountsReferences
    /\ pc = "parser_done" =>
          \A i \in 1..Len(figures) :
              PrefixedFigure(i) =>
                  /\ UnreferencedFor(figures[i].label) <= OneIfUnreferenced(figures[i].label)
                  /\ Len(issues) < MaxIssuesOption(max_issues) =>
                        UnreferencedFor(figures[i].label)
                            = OneIfUnreferenced(figures[i].label)

\* a figure referenced twice without the issue beside a figure never
\* referenced with it
C13_Witness ==
    /\ pc = "verifier_done" /\ Len(figures) = 2
    /\ PrefixedFigure(1) /\ PrefixedFigure(2)
    /\ target_result.entities[1].ref_count = 2 /\ UnreferencedAt(1) = 0
    /\ target_result.entities[2].ref_count = 0 /\ UnreferencedAt(2) = 1

----------------------------------------------------------------------------
(* Specification SpecEnvs: the verifier's figure target on every content   *)
(* of main.tex of at most MaxTokens tokens                                  *)

InitEnvs ==
    /\ pc = "source_read"
    /\ text \in BoundedSeq(EnvTokens, MaxTokens) /\ scanned = <<>>
    /\ refs \in {<<>>, <<[key |-> <<"fig:", "r">>, file |-> main_tex, line |-> 1]>>}
    /\ citations = <<>> /\ bib_entries = <<>>
    /\ local_issues = <<>> /\ issues = <<>> /\ max_issues = 0
    /\ figures = <<>> /\ tables = <<>>
    /\ IdleTitle /\ IdleWalk /\ IdleRemote /\ IdleVerify /\ IdleRun

\* verify_content_targets.main with --target figures, from the content of
\* the file on
VerifyFiguresTarget ==
    /\ pc = "source_read"
    /\ \E figs \in {_extract_envs(main_tex, text)} :
          /\ figures' = figs
          /\ target_result' = _verify_figures(figs, refs)
    /\ pc' = "verifier_done"
    /\ UNCHANGED <<citations, bib_entries, local_issues, issues, max_issues, refs,
                   tables, titleVars, walkVars, remoteVars, runVars, sourceVars,
                   sections, section_name>>

NextEnvs == VerifyFiguresTarget

SpecEnvs == InitEnvs /\ [][NextEnvs]_vars

\* no closing directive strictly between positions p and q of the text
NoEndBetween(p, q) == \A k \in (p + 1)..(q - 1) : text[k] # EndFigure

\* the positions at which a figure environment opens: an opening directive
\* with a closing directive after it that is not inside an environment still
\* open
Openings ==
    {p \in 1..Len(text) :
        /\ text[p] = BeginFigure
        /\ \E e \in (p + 1)..Len(text) : text[e] = EndFigure
        /\ ~\E q \in 1..(p - 1) : text[q] = BeginFigure /\ NoEndBetween(q, p)}

\* the 1-based line of position p
LineOfPosition(p) == Cardinality({k \in 1..(p - 1) : text[k] = Newline}) + 1

\* the environment opened at p holds nothing but line breaks (and opening
\* directives) before its closing directive: no label, no caption, no width,
\* no negative space
Bare(p) ==
    \A k \in (p + 1)..Len(text) :
        NoEndBetween(p, k + 1) => text[k] \in {Newline, BeginFigure}

OpeningsOnLine(l) == {p \in Openings : LineOfPosition(p) = l}

IssuesOnLine(l, type, severity) ==
    Count(target_result.issues,
          LAMBDA r : r.file = main_tex /\ r.line = l /\ r.type = type
                     /\ r.severity = severity)

IssuesOnLineTotal(l) ==
    Count(target_result.issues, LAMBDA r : r.file = main_tex /\ r.line = l)

\* C14: a figure environment with no label, no caption, no width factor and
\* no negative space yields exactly two issues, missing_label (error) and
\* missing_caption (warning), both on the file and the 1-based line of its
\* opening directive: on a line where n such environments open, and no
\* other, there are n issues of each and 2n in all; there is one figure
\* record per environment.
C14_BareFigureYieldsTwoIssues ==
    pc = "verifier_done" =>
        /\ Len(figures) = Cardinality(Openings)
        /\ \A l \in 1..(Len(text) + 1) :
              LET bare == Cardinality({p \in OpeningsOnLine(l) : Bare(p)})
              IN  /\ IssuesOnLine(l, "missing_label", "error") >= bare
                  /\ IssuesOnLine(l, "missing_caption", "warning") >= bare
                  /\ bare = Cardinality(OpeningsOnLine(l)) =>
                        /\ IssuesOnLine(l, "missing_label", "error") = bare
                        /\ IssuesOnLine(l, "missing_caption", "warning") = bare
                        /\ IssuesOnLineTotal(l) = 2 * bare

\* a bare figure that opens on line 2 and closes on line 3
C14_Witness ==
    /\ pc = "verifier_done"
    /\ text = <<Newline, BeginFigure, Newline, EndFigure>>
    /\ Len(figures) = 1
    /\ IssuesOnLine(2, "missing_label", "error") = 1
    /\ IssuesOnLine(2, "missing_caption", "warning") = 1
    /\ IssuesOnLineTotal(2) = 2

----------------------------------------------------------------------------
(* Claims about where the local issues point (SpecLocal) *)

\* record i is the first of the list with its key
FirstWithKey(list, i) == \A j \in 1..(i - 1) : list[j].key # list[i].key

\* the issue carries the file and line of the first record of the list with
\* the issue's key
AtFirstRecord(r, list) ==
    \E i \in 1..Len(list) :
        /\ list[i].key = r.key /\ FirstWithKey(list, i)
        /\ r.file = list[i].file /\ r.line = list[i].line

OfType(list, type) == SelectSeq(list, LAMBDA r : r.type = type)

\* C15: every undefined_citation issue, of the validator and of the parser,
\* carries the file and line of the first citation record with its key in the
\* extracted sequence.
C15_UndefinedCitationAtFirstOccurrence ==
    /\ pc = "validator_done" =>
          \A n \in 1..Len(local_issues) :
              local_issues[n].type = "undefined_citation"
                  => AtFirstRecord(local_issues[n], citations)
    /\ pc = "parser_done" =>
          \A n \in 1..Len(issues) :
              issues[n].type = "undefined_citation"
                  => AtFirstRecord(issues[n], citations)

\* an undefined key cited at two places, reported at the first
C15_Witness ==
    /\ pc = "validator_done" /\ Len(citations) = 2
    /\ citations[1].key = citations[2].key
    /\ citations[1].file # citations[2].file
    /\ citations[1].line # citations[2].line
    /\ Len(OfType(local_issues, "undefined_citation")) = 1
    /\ OfType(local_issues, "undefined_citation")[1].file = citations[1].file
    /\ OfType(local_issues, "undefined_citation")[1].line = citations[1].line

\* the citation records with the generic command that share key, file and line
GenericCitesAt(k, f, l) ==
    Count(citations, LAMBDA c : c.command = "cite" /\ c.key = k /\ c.file = f /\ c.line = l)

StyleIssuesAt(k, f, l) ==
    Count(local_issues,
          LAMBDA r : r.type = "citation_style_generic_cite" /\ r.severity = "info"
                     /\ r.key = k /\ r.file = f /\ r.line = l)

\* C16: the validator emits one citation_style_generic_cite issue (info) for
\* every citation record whose command is cite, on that record's key, file
\* and line, and none for a record of another command, whether or not the key
\* is defined.
C16_OneStyleIssuePerGenericCite ==
    pc = "validator_done" =>
        /\ Len(OfType(local_issues, "citation_style_generic_cite"))
              = Count(citations, LAMBDA c : c.command = "cite")
        /\ \A k \in Keys, f \in Range(TexOrder), l \in LineNos :
              StyleIssuesAt(k, f, l) = GenericCitesAt(k, f, l)

\* one defined key in two generic citations on one line: two issues
C16_Witness ==
    /\ pc = "validator_done" /\ Len(citations) = 2
    /\ citations[1] = citations[2] /\ citations[1].command = "cite"
    /\ citations[1].key \in BibKeySet
    /\ StyleIssuesAt(citations[1].key, citations[1].file, citations[1].line) = 2

\* the never-cited keys that several bibliography records share
SharedUncitedKeys ==
    {k \in BibKeySet \ CitedKeySet :
        Cardinality({i \in 1..Len(bib_entries) : bib_entries[i].key = k}) > 1}

\* one uncited_bibliography_entry issue for the key, at the first record
OneIssueAtFirstRecord(list, k) ==
    /\ IssueCount(list, "uncited_bibliography_entry", k) = 1
    /\ \A n \in 1..Len(list) :
          list[n].type = "uncited_bibliography_entry" /\ list[n].key = k
              => AtFirstRecord(list[n], bib_entries)

\* C17 as stated: when several bibliography records share one key that is
\* never cited, exactly one uncited_bibliography_entry issue is emitted for the
\* key and it carries the file and line of the first record with that key, in
\* the validator as in the parser.
C17_UncitedIssueAtFirstRecord ==
    /\ pc = "validator_done" =>
          \A k \in SharedUncitedKeys : OneIssueAtFirstRecord(local_issues, k)
    /\ pc = "parser_done" =>
          \A k \in SharedUncitedKeys : OneIssueAtFirstRecord(issues, k)

\* the issue carries the file and line of the last record of the list with
\* the issue's key
AtLastRecord(r, list) ==
    \E i \in 1..Len(list) :
        /\ list[i].key = r.key
        /\ \A j \in (i + 1)..Len(list) : list[j].key # r.key
        /\ r.file = list[i].file /\ r.line = list[i].line

\* C17 (amended): for a never-cited key that several bibliography records
\* share, the validator emits exactly one uncited_bibliography_entry issue and
\* it carries the file and line of the last record with that key; the parser's
\* list, cut to max(1, --max-issues) issues, holds at most one such issue, at
\* the first record with that key, and exactly one when the list is shorter
\* than max(1, --max-issues).
C17_UncitedIssueAtLastRecordInValidator ==
    /\ pc = "validator_done" =>
          \A k \in SharedUncitedKeys :
              /\ IssueCount(local_issues, "uncited_bibliography_entry", k) = 1
              /\ \A n \in 1..Len(local_issues) :
                    /\ local_issues[n].type = "uncited_bibliography_entry"
                    /\ local_issues[n].key = k
                    => AtLastRecord(local_issues[n], bib_entries)
    /\ pc = "parser_done" =>
          \A k \in SharedUncitedKeys :
              /\ IssueCount(issues, "uncited_bibliography_entry", k) <= 1
              /\ \A n \in 1..Len(issues) :
                    issues[n].type = "uncited_bibliography_entry" /\ issues[n].key = k
                        => AtFirstRecord(issues[n], bib_entries)
              /\ Len(issues) < MaxIssuesOption(max_issues)
                    => IssueCount(issues, "uncited_bibliography_entry", k) = 1

\* two records of one never-cited key on different lines: the validator's
\* issue points at the second
C17_Witness ==
    /\ pc = "validator_done" /\ Len(bib_entries) = 2
    /\ bib_entries[1].key = bib_entries[2].key
    /\ bib_entries[1].line < bib_entries[2].line
    /\ SharedUncitedKeys = {bib_entries[1].key}
    /\ Len(OfType(local_issues, "uncited_bibliography_entry")) = 1
    /\ OfType(local_issues, "uncited_bibliography_entry")[1].line = bib_entries[2].line

----------------------------------------------------------------------------
(* Specification SpecBib: _parse_bib_entries, one turn of its loop per      *)
(* step, and _parse_bib_fields, on every bibliography of at most           *)
(* MaxRecords well-formed records from which at most MaxDropped characters *)
(* were lost                                                                *)

\* a well-formed record on a line of its own
RecordText(key) ==
    <<"@", "a", "{", key, ",", "t", "i", "t", "l", "e", "=", "{", "A", "{", "b", "}", "}",
      "}", "\n">>

WellFormed(n) == Concat([i \in 1..n |-> RecordText(IF i = 1 THEN "a" ELSE "b")])

\* the sets of at most k positions out of 1..n
RECURSIVE DropSets(_, _)
DropSets(n, k) ==
    IF k = 0 THEN {{}}
    ELSE DropSets(n, k - 1) \cup {D \cup {i} : D \in DropSets(n, k - 1), i \in 1..n}

Without(s, D) ==
    LET kept == SelectSeq([i \in 1..Len(s) |-> i], LAMBDA i : i \notin D)
    IN  [i \in 1..Len(kept) |-> s[kept[i]]]

\* the bibliographies of n records with at most MaxDropped characters lost
BibTexts(n) ==
    {Without(WellFormed(n), D) : D \in DropSets(Len(WellFormed(n)), MaxDropped)}

InitBib ==
    /\ pc = "bib_read"
    /\ \E n \in 0..MaxRecords : text \in BibTexts(n)
    /\ scanned = ScanStart
    /\ IdleTitle /\ IdleWalk /\ IdleRemote /\ IdleVerify /\ IdleRun
    /\ citations = <<>> /\ bib_entries = <<>>
    /\ local_issues = <<>> /\ issues = <<>> /\ max_issues = 0
    /\ refs = <<>> /\ figures = <<>> /\ tables = <<>>

BibFrame == UNCHANGED <<text, localVars, titleVars, walkVars, remoteVars, runVars, verifyVars>>

\* _parse_bib_fields applied to the text
ParseBibFields ==
    /\ pc = "bib_read"
    /\ scanned' = [fields |-> _parse_bib_fields(text)]
    /\ pc' = "fields_parsed"
    /\ BibFrame

\* lines 159-210: one turn of the loop of _parse_bib_entries
BibScanTurn ==
    /\ pc \in {"bib_read", "bib_scan"}
    /\ scanned.pos <= Len(text)
    /\ \E st \in {ScanTurn(text, scanned)} :
          /\ scanned' = st
          /\ pc' = IF st.done THEN "bib_parsed" ELSE "bib_scan"
    /\ BibFrame

\* line 159: i < len(content) fails
BibScanEnd ==
    /\ pc \in {"bib_read", "bib_scan"}
    /\ scanned.pos > Len(text)
    /\ scanned' = [scanned EXCEPT !.done = TRUE]
    /\ pc' = "bib_parsed"
    /\ BibFrame

NextBib == ParseBibFields \/ BibScanTurn \/ BibScanEnd

SpecBib == InitBib /\ [][NextBib]_vars

\* the brace depth at position q of the text for a scan that starts behind
\* the opening brace at position p
DepthAt(p, q) ==
    1 + Cardinality({k \in (p + 1)..q : text[k] = "{"})
      - Cardinality({k \in (p + 1)..q : text[k] = "}"})

\* the position of the brace that closes the one at p, 0 when the text ends
\* before
CloseOf(p) ==
    IF \E q \in (p + 1)..Len(text) : DepthAt(p, q) = 0
    THEN SetMin({q \in (p + 1)..Len(text) : DepthAt(p, q) = 0})
    ELSE 0

HeaderAt(h) == text[h] = "@" /\ HeaderMatch(text, h) # 0
BodyOpen(h) == HeaderMatch(text, h)

\* the record starts of the text: headers outside every earlier record
RecordStarts ==
    {h \in 1..Len(text) :
        /\ HeaderAt(h)
        /\ ~\E g \in 1..(h - 1) :
              HeaderAt(g) /\ (CloseOf(BodyOpen(g)) = 0 \/ CloseOf(BodyOpen(g)) > h)}

EntryOnLine(l) == \E n \in 1..Len(scanned.entries) : scanned.entries[n].line = l

\* the record body of h up to its closing brace holds a comma
HasComma(h) ==
    \E k \in (BodyOpen(h) + 1)..(CloseOf(BodyOpen(h)) - 1) : text[k] = ","

\* the entries are those of the closed record starts with a comma, one each
EntriesOfClosedRecords ==
    pc = "bib_parsed" =>
        Len(scanned.entries)
            = Cardinality({h \in RecordStarts : CloseOf(BodyOpen(h)) # 0 /\ HasComma(h)})

\* the first field of the text: the first position at which a name and "="
\* match
FirstFieldAt(i) ==
    NameMatch(text, i) # 0 /\ \A j \in 1..(i - 1) : NameMatch(text, j) = 0

ValueStart(i) == RunEnd(text, NameMatch(text, i) + 1, IsBibSpace)

\* C18: the brace-depth scan returns the text up to the matching close, and
\* the text scanned so far when the input ends before the depth returns to 0:
\* a braced field value that is never closed is the rest of the text, and a
\* record whose closing brace is missing still yields an entry, beside the
\* entries of the records before it.
C18_UnclosedScanKeepsTextSoFar ==
    /\ pc = "fields_parsed" =>
          \A i \in 1..Len(text) :
              /\ FirstFieldAt(i) /\ ValueStart(i) <= Len(text)
              /\ text[ValueStart(i)] = "{" /\ CloseOf(ValueStart(i)) = 0
              => GetField(scanned.fields,
                          LowerStr(SubSeq(text, i, RunEnd(text, i + 1, IsNameChar) - 1)))
                     = JoinSplit(SubSeq(text, ValueStart(i) + 1, Len(text)))
    /\ pc = "bib_parsed" =>
          \A h \in RecordStarts :
              /\ CloseOf(BodyOpen(h)) # 0 /\ HasComma(h) => EntryOnLine(LineNo(text, h))
              /\ CloseOf(BodyOpen(h)) = 0 => EntryOnLine(LineNo(text, h))

----------------------------------------------------------------------------
(* Specification SpecStrip: _strip_comment on every line of at most        *)
(* MaxLineLen characters                                                    *)

InitStrip ==
    /\ pc = "line_read"
    /\ text \in BoundedSeq(LineChars, MaxLineLen) /\ scanned = <<>>
    /\ IdleTitle /\ IdleWalk /\ IdleRemote /\ IdleVerify /\ IdleRun
    /\ citations = <<>> /\ bib_entries = <<>>
    /\ local_issues = <<>> /\ issues = <<>> /\ max_issues = 0
    /\ refs = <<>> /\ figures = <<>> /\ tables = <<>>

StripComment ==
    /\ pc = "line_read"
    /\ scanned' = _strip_comment(text)
    /\ pc' = "stripped"
    /\ UNCHANGED <<text, localVars, titleVars, walkVars, remoteVars, runVars, verifyVars>>

NextStrip == StripComment

SpecStrip == InitStrip /\ [][NextStrip]_vars

\* the positions of the comment characters not preceded by a backslash
UnescapedPercents ==
    {i \in 1..Len(text) : text[i] = "%" /\ (i = 1 \/ text[i - 1] # "\\")}

\* the part of the line before the first of them, the whole line without one
BeforeComment ==
    IF UnescapedPercents = {} THEN text
    ELSE SubSeq(text, 1, SetMin(UnescapedPercents) - 1)

\* on a line that does not hold the text __PERCENT__ the result is the part
\* before the first comment character not preceded by a backslash
StripsLinesWithoutPlaceholder ==
    pc = "stripped" /\ (\A i \in 1..Len(text) : text[i] # Placeholder)
        => scanned = BeforeComment

\* C19: for every line _strip_comment returns exactly the part of the line
\* before the first comment character that is not preceded by a backslash,
\* the whole line when there is none: a prefix of the line in which no
\* character is altered.
C19_StripReturnsPrefixBeforeComment ==
    pc = "stripped" => scanned = BeforeComment

----------------------------------------------------------------------------
(* Specification SpecSection: the verifier's section target on every list  *)
(* of at most MaxSections extracted sections                                *)

SectionNames   == { <<"A", "b">>, <<"b">>, <<"a">>, <<"x">> }
RequestedNames == { <<"a">>, <<"B">>, <<"a", "b">>, <<"X", "x">> }
SectionBodies  == { <<>>, <<"text">>, <<"TODO", "we show">>, <<"text", "", "we show \\cite{a}">> }
MinWordsArgs   == {0, 3}

\* the sections of main.tex, one heading per line
SectionLists ==
    UNION {{[i \in 1..n |-> [name |-> ns[i], level |-> "section", file |-> main_tex,
                             line |-> i, content |-> bs[i]]] :
                ns \in [1..n -> SectionNames], bs \in [1..n -> SectionBodies]} :
           n \in 0..MaxSections}

InitSection ==
    /\ pc = "sections_extracted"
    /\ sections \in SectionLists
    /\ section_name \in RequestedNames
    /\ target_result = NoResult
    /\ IdleTitle /\ IdleWalk /\ IdleRemote /\ IdleSource /\ IdleRun
    /\ citations = <<>> /\ bib_entries = <<>>
    /\ local_issues = <<>> /\ issues = <<>> /\ max_issues = 0
    /\ refs = <<>> /\ figures = <<>> /\ tables = <<>>

\* verify_content_targets.main with --target section (lines 541-546), from
\* the extracted sections on
VerifySection ==
    /\ pc = "sections_extracted"
    /\ \E arg \in MinWordsArgs :
          target_result' = _verify_section(sections, section_name,
                                           IF arg >= 1 THEN arg ELSE 1)
    /\ pc' = "section_done"
    /\ UNCHANGED <<localVars, titleVars, walkVars, remoteVars, runVars, sourceVars,
                   sections, section_name>>

NextSection == VerifySection

SpecSection == InitSection /\ [][NextSection]_vars

\* the name of section i contains the requested name, letter case aside
NameMatches(i) == IsSubstring(LowerStr(section_name), LowerStr(sections[i].name))

\* C20: section targeting selects the first extracted section whose name
\* contains the requested name, letter case aside; when no section matches
\* the result holds exactly one issue, section_not_found with severity error,
\* no entities, and the list of all extracted section names.
C20_FirstMatchOrSectionNotFound ==
    pc = "section_done" =>
        /\ \A i \in 1..Len(sections) :
              NameMatches(i) /\ (\A j \in 1..(i - 1) : ~NameMatches(j)) =>
                  /\ Len(target_result.entities) = 1
                  /\ target_result.entities[1].name = sections[i].name
                  /\ target_result.entities[1].file = sections[i].file
                  /\ target_result.entities[1].line = sections[i].line
                  /\ \A n \in 1..Len(target_result.issues) :
                        target_result.issues[n].type # "section_not_found"
        /\ (\A i \in 1..Len(sections) : ~NameMatches(i)) =>
              /\ target_result.entities = <<>>
              /\ Len(target_result.issues) = 1
              /\ target_result.issues[1].type = "section_not_found"
              /\ target_result.issues[1].severity = "error"
              /\ target_result.available_sections
                    = [i \in 1..Len(sections) |-> sections[i].name]

\* two sections, neither holding the requested name
C20_Witness ==
    /\ pc = "section_done" /\ Len(sections) = 2
    /\ \A i \in 1..2 : ~NameMatches(i)
    /\ Len(target_result.issues) = 1
    /\ target_result.issues[1].type = "section_not_found"
    /\ Len(target_result.available_sections) = 2

----------------------------------------------------------------------------
(* Specification SpecExit: main of the three tools, from the options and   *)
(* the files they name to the exit status.  Every file that is read is a   *)
(* readable file under the project root.                                    *)

Tools == {"validate_citations", "parse_latex_structure", "verify_content_targets"}

\* project_root.exists() and project_root.is_dir(): a directory, nothing, or
\* something that is no directory
RootKinds == {"dir", "missing", "file"}

\* an optional file option: not given, naming a path that exists, or not
NamedFiles == {"unset", "exists", "missing"}

Targets == {"figures", "tables", "section"}

\* the invocations of a tool: nothing exists under a root that is no directory
Invocations ==
    {inv \in [tool : Tools, project_root : RootKinds, tex_files : 0..MaxTexFiles,
              main_tex : NamedFiles, bib_file : NamedFiles, target : Targets,
              section_name : {"", "Intro"}] :
        /\ inv.project_root # "dir" =>
              inv.tex_files = 0 /\ inv.main_tex # "exists" /\ inv.bib_file # "exists"
        /\ inv.tool # "validate_citations" => inv.bib_file = "unset"
        /\ inv.tool # "verify_content_targets" =>
              inv.target = "figures" /\ inv.section_name = ""
        /\ inv.target # "section" => inv.section_name = ""}

\* return <code> after a line on the error stream
Abort(code) == [exit |-> code, report |-> FALSE, diagnostic |-> TRUE]

\* return <code> after print(json.dumps(payload))
Report(code) == [exit |-> code, report |-> TRUE, diagnostic |-> FALSE]

\* _find_main_tex: the first file with \documentclass, else the first file,
\* None for an empty list
_find_main_tex(tex_files) == IF tex_files = 0 THEN None ELSE "main.tex"

\* validate_citations.main (lines 401-533)
ValidatorExit(inv) ==
    IF inv.project_root # "dir" THEN Abort(2)
    ELSE IF inv.main_tex = "missing" THEN Abort(2)
    ELSE IF inv.bib_file = "missing" THEN Abort(2)
    ELSE Report(0)

\* parse_latex_structure.main (lines 399-489)
ParserExit(inv) ==
    IF inv.project_root # "dir" THEN Abort(2)
    ELSE IF inv.tex_files = 0 THEN Report(1)
    ELSE IF inv.main_tex = "missing" THEN Abort(2)
    ELSE IF inv.main_tex = "unset" /\ _find_main_tex(inv.tex_files) = None THEN Abort(2)
    ELSE Report(0)

\* verify_content_targets.main (lines 504-566)
VerifierExit(inv) ==
    IF inv.target = "section" /\ inv.section_name = "" THEN Abort(2)
    ELSE IF inv.project_root # "dir" THEN Abort(2)
    ELSE IF inv.tex_files = 0 THEN Abort(1)
    ELSE IF inv.main_tex = "missing" THEN Abort(2)
    ELSE IF inv.main_tex = "unset" /\ _find_main_tex(inv.tex_files) = None THEN Abort(2)
    ELSE Report(0)

MainExit(inv) ==
    CASE inv.tool = "validate_citations"     -> ValidatorExit(inv)
      [] inv.tool = "parse_latex_structure"  -> ParserExit(inv)
      [] inv.tool = "verify_content_targets" -> VerifierExit(inv)

InitExit ==
    /\ pc = "invoked"
    /\ invocation \in Invocations
    /\ outcome = <<>>
    /\ IdleTitle /\ IdleLocal /\ IdleWalk /\ IdleRemote /\ IdleSource /\ IdleVerify

\* raise SystemExit(main())
Main ==
    /\ pc = "invoked"
    /\ outcome' = MainExit(invocation)
    /\ pc' = "exited"
    /\ UNCHANGED <<invocation, titleVars, localVars, walkVars, remoteVars, sourceVars,
                   verifyVars>>

NextExit == Main

SpecExit == InitExit /\ [][NextExit]_vars

\* the run could not run: invalid project root, a named file that is missing,
\* the section target without a section name, or no .tex file to run on
CouldNotRun ==
    \/ invocation.project_root # "dir"
    \/ invocation.main_tex = "missing"
    \/ invocation.bib_file = "missing"
    \/ invocation.target = "section" /\ invocation.section_name = ""
    \/ invocation.tex_files = 0

\* every run ends with a report or a diagnostic, never both (holds)
ReportOrDiagnostic ==
    pc = "exited" => (outcome.report # outcome.diagnostic)

\* C21: a run that prints a report exits with status 0, and a run that exits
\* with another status could not run and prints no report
C21_ReportMeansExitZero ==
    pc = "exited" =>
        /\ outcome.report => outcome.exit = 0
        /\ outcome.exit # 0 => CouldNotRun /\ ~outcome.report

----------------------------------------------------------------------------
(* Claims about which labels get an unreferenced issue (SpecFloats) *)

\* the label is present, starts with fig: and no reference names it
PrefixedAndNeverReferenced(label) ==
    label # <<>> /\ StartsWith(label, "fig:") /\ RefsTo(label) = 0

\* C23: an unreferenced issue, of the verifier or of the structure parser,
\* is emitted only for a label that is present, starts with fig: and is
\* never referenced; a label without the prefix never gets one
C23_UnreferencedOnlyForPrefixedLabels ==
    /\ pc = "verifier_done" =>
          \A n \in 1..Len(target_result.issues) :
              target_result.issues[n].type = "unreferenced" =>
                  PrefixedAndNeverReferenced(target_result.issues[n].label)
    /\ pc = "parser_done" =>
          \A n \in 1..Len(issues) :
              issues[n].type = "unreferenced_figure" =>
                  PrefixedAndNeverReferenced(issues[n].label)

\* the verifier alone keeps to it (holds)
VerifierUnreferencedOnlyForPrefixedLabels ==
    pc = "verifier_done" =>
        \A n \in 1..Len(target_result.issues) :
            target_result.issues[n].type = "unreferenced" =>
                PrefixedAndNeverReferenced(target_result.issues[n].label)

----------------------------------------------------------------------------
(* Specification SpecPaths: verify_content_targets.main from the entry     *)
(* file to the extracted references, on a project whose main.tex lies in   *)
(* the project root and holds at most MaxTargets inclusion directives.     *)
(* A path stands for what Path.resolve() returns; "../out.tex" is a path   *)
(* outside the project root (a target written with .. or as an absolute    *)
(* path).  The files beside main.tex hold no inclusion directive.  The     *)
(* structure parser resolves, walks and normalizes in the same way         *)
(* (parse_latex_structure.py lines 63-133, 136-143).                        *)

PathNames == {"main.tex", "ch.tex", "../out.tex"}

UnderRoot(path) == path # "../out.tex"

\* what a path names: a readable file, a file whose read raises OSError, a
\* directory, or nothing
FileKinds == {"file", "unreadable", "dir", "missing"}

\* path.exists() and path.is_file()
IsFile(fs, path) == fs[path] \in {"file", "unreadable"}

\* lines 63-78, for a base file in the project root: the local and the
\* project-relative candidate are the same path
_resolve_include(fs, target) == IF IsFile(fs, target) THEN target ELSE None

\* lines 52-53: path.relative_to(root) raises ValueError outside the root
_normalize_path(path) == IF UnderRoot(path) THEN path ELSE "ValueError"

\* lines 42-43: read_text raises an OSError for what is no readable file
_read_text(fs, path) == IF fs[path] = "file" THEN "text" ELSE "OSError"

\* lines 97-104: the loop over the inclusion directives of one file, each
\* walk(include_path) adding a file not visited before
RECURSIVE WalkDirectives(_, _, _, _)
WalkDirectives(fs, directives, i, files) ==
    IF i > Len(directives) THEN files
    ELSE WalkDirectives(fs, directives, i + 1,
            IF _resolve_include(fs, directives[i]) = None
               \/ _resolve_include(fs, directives[i]) \in Range(files)
            THEN files
            ELSE Append(files, _resolve_include(fs, directives[i])))

\* lines 81-105: _collect_main_tex_tree
_collect_main_tex_tree(fs, entry, directives) ==
    IF _read_text(fs, entry) = "OSError" \/ entry # "main.tex" THEN <<entry>>
    ELSE WalkDirectives(fs, directives, 1, <<entry>>)

\* lines 108-118: _extract_refs reads each file, then normalizes its path;
\* the first file for which either raises ends the run
RECURSIVE FirstRaise(_, _, _)
FirstRaise(fs, files, i) ==
    IF i > Len(files) THEN None
    ELSE IF _read_text(fs, files[i]) = "OSError" THEN "OSError"
    ELSE IF _normalize_path(files[i]) = "ValueError" THEN "ValueError"
    ELSE FirstRaise(fs, files, i + 1)

\* an exception leaves main: traceback, exit status 1, no report
Traceback(exception) ==
    [exit |-> 1, report |-> FALSE, diagnostic |-> TRUE, raised |-> exception]

\* lines 522-566 once the entry file is known
ExtractedFrom(fs, files) ==
    IF FirstRaise(fs, files, 1) # None THEN Traceback(FirstRaise(fs, files, 1))
    ELSE [exit |-> 0, report |-> TRUE, diagnostic |-> FALSE, raised |-> None]

\* --main-tex: not given (main.tex is detected) or one of the paths
EntryFile(inv) == IF inv.main_tex = "unset" THEN "main.tex" ELSE inv.main_tex

PathInvocations ==
    {inv \in [main_tex : {"unset"} \cup PathNames,
              fs : [PathNames -> FileKinds],
              directives : BoundedSeq(PathNames \ {"main.tex"}, MaxTargets)] :
        inv.fs["main.tex"] = "file"}

InitPaths ==
    /\ pc = "invoked"
    /\ invocation \in PathInvocations
    /\ outcome = <<>>
    /\ IdleTitle /\ IdleLocal /\ IdleWalk /\ IdleRemote /\ IdleSource /\ IdleVerify

PathsFrame == UNCHANGED <<invocation, includes, unreadable, walker, visited, stack,
                          processed, titleVars, localVars, remoteVars, sourceVars,
                          verifyVars>>

\* lines 522-526: the explicit entry file does not exist
EntryMissing ==
    /\ pc = "invoked"
    /\ invocation.fs[EntryFile(invocation)] = "missing"
    /\ outcome' = Abort(2)
    /\ pc' = "exited"
    /\ UNCHANGED ordered
    /\ PathsFrame

\* lines 534-566: collect the inclusion tree, extract, report
CollectAndExtract ==
    /\ pc = "invoked"
    /\ invocation.fs[EntryFile(invocation)] # "missing"
    /\ \E files \in {_collect_main_tex_tree(invocation.fs, EntryFile(invocation),
                                            invocation.directives)} :
          /\ ordered' = files
          /\ outcome' = ExtractedFrom(invocation.fs, files)
    /\ pc' = "exited"
    /\ PathsFrame

NextPaths == EntryMissing \/ CollectAndExtract

SpecPaths == InitPaths /\ [][NextPaths]_vars

\* the files handed to the extractors
Handed == Range(ordered)

\* a project whose targets all name readable files under the root, or
\* nothing, is extracted without an exception (holds)
ReadableProjectNeverRaises ==
    pc = "exited" /\ outcome.exit # 2 =>
        ((\A p \in PathNames :
              invocation.fs[p] \in (IF UnderRoot(p) THEN {"file", "missing"} ELSE {"missing"}))
            => outcome.raised = None)

\* C22: every file handed to the extractors lies under the project root and
\* no extractor raises, whatever the inclusion targets and the entry file
\* name
C22_HandedFilesUnderRootAndNoRaise ==
    pc = "exited" /\ outcome.exit # 2 =>
        /\ \A p \in Handed : UnderRoot(p)
        /\ outcome.raised = None

----------------------------------------------------------------------------
(* verify_content_targets.py: _extract_sections                             *)
(* The content of a file is a sequence of lines; a line is a body line or  *)
(* one heading directive.                                                   *)

SectionLine    == "\\section{a}"
SubsectionLine == "\\subsection{b}"
ParagraphLine  == "\\paragraph{x}"

HeadingLines == {SectionLine, SubsectionLine, ParagraphLine}

\* line 27: SECTION_RE matches \section, \subsection and \subsubsection
SECTION_RE(line) == line \in {SectionLine, SubsectionLine}

\* match.group(2).strip() and match.group(1)
HeadingName(line)  == IF line = SectionLine THEN <<"a">> ELSE <<"b">>
HeadingLevel(line) == IF line = SectionLine THEN "section" ELSE "subsection"

\* lines 359-365: the section a heading line opens
Opened(file, lines, i) ==
    [name |-> HeadingName(lines[i]), level |-> HeadingLevel(lines[i]),
     file |-> file, line |-> i, content |-> <<>>]

\* lines 350-373: the loop over the lines of one file; current holds the
\* open section, and is empty (None) before the first heading
RECURSIVE SectionsFrom(_, _, _, _, _)
SectionsFrom(file, lines, i, secs, current) ==
    IF i > Len(lines) THEN secs \o current
    ELSE IF SECTION_RE(lines[i])
    THEN SectionsFrom(file, lines, i + 1, secs \o current, <<Opened(file, lines, i)>>)
    ELSE SectionsFrom(file, lines, i + 1, secs,
                      [n \in 1..Len(current) |->
                          [current[n] EXCEPT !.content = Append(@, lines[i])]])

\* lines 342-376, for one file
_extract_sections(file, lines) == SectionsFrom(file, lines, 1, <<>>, <<>>)

----------------------------------------------------------------------------
(* Specification SpecHeadings: the verifier's section target on every      *)
(* content of main.tex of at most MaxLines lines                            *)

SourceLines == {"", "text", "TODO", "we show"} \cup HeadingLines

InitHeadings ==
    /\ pc = "source_read"
    /\ text \in BoundedSeq(SourceLines, MaxLines)
    /\ scanned = <<>>
    /\ sections = <<>>
    /\ section_name \in { <<"a">>, <<"b">> }
    /\ target_result = NoResult
    /\ IdleTitle /\ IdleLocal /\ IdleWalk /\ IdleRemote /\ IdleRun

\* verify_content_targets.main with --target section (lines 540-546)
VerifySectionTarget ==
    /\ pc = "source_read"
    /\ \E secs \in {_extract_sections(main_tex, text)} :
          /\ sections' = secs
          /\ target_result' = _verify_section(secs, section_name, 1)
    /\ pc' = "section_done"
    /\ UNCHANGED <<localVars, titleVars, walkVars, remoteVars, runVars, sourceVars,
                   section_name>>

NextHeadings == VerifySectionTarget

SpecHeadings == InitHeadings /\ [][NextHeadings]_vars

\* the line of the first heading that names the requested section, 0 if none
RequestedHeading ==
    LET hits == {h \in 1..Len(text) :
                    /\ text[h] \in {SectionLine, SubsectionLine}
                    /\ IsSubstring(LowerStr(section_name), HeadingName(text[h]))}
    IN  IF hits = {} THEN 0 ELSE SetMin(hits)

\* the line after the body that starts below heading h when the headings
\* that end a body are those of H
BodyEnd(h, H) ==
    SetMin({k \in (h + 1)..(Len(text) + 1) : k = Len(text) + 1 \/ text[k] \in H})

\* the body lines below heading h
BodyBelow(h, H) == SubSeq(text, h + 1, BodyEnd(h, H) - 1)

IssuesOfType(type) == SelectSeq(target_result.issues, LAMBDA r : r.type = type)

\* what the checks report is what they find in the body
ChecksApplyTo(body) ==
    /\ target_result.entities[1].word_count = WordCount(body)
    /\ Len(IssuesOfType("placeholder_text")) = Count(body, HasPlaceholder)
    /\ Len(IssuesOfType("potential_unsupported_claim")) = Count(body, UnsupportedClaim)
    /\ (IssuesOfType("section_too_short") # <<>>) = (WordCount(body) < 1)

\* the body ends at the next \section or \subsection heading, or at the end
\* of the file (holds)
BodyUpToNextSectionHeading ==
    pc = "section_done" /\ RequestedHeading # 0 =>
        ChecksApplyTo(BodyBelow(RequestedHeading, {SectionLine, SubsectionLine}))

\* C24: the body of the verified section is the text from its heading to
\* the next heading of any recognized level, \paragraph included, or to the
\* end of the file, and the word count and the checks apply to that body
C24_BodyEndsAtNextHeadingOfAnyLevel ==
    pc = "section_done" /\ RequestedHeading # 0 =>
        ChecksApplyTo(BodyBelow(RequestedHeading, HeadingLines))

\* the lines of main.tex, in order, that lie in the body of the verified
\* section and satisfy P
OffendingLines(P(_)) ==
    SelectSeq([l \in 1..Len(text) |-> l],
              LAMBDA l : /\ l > RequestedHeading
                         /\ l < BodyEnd(RequestedHeading, {SectionLine, SubsectionLine})
                         /\ P(text[l]))

\* the line numbers the issues of a type carry, in order
IssueLines(type) == [n \in 1..Len(IssuesOfType(type)) |-> IssuesOfType(type)[n].line]

\* the issues carry the offending lines counted from the line below the
\* heading (holds)
IssueLinesCountFromHeading ==
    pc = "section_done" /\ RequestedHeading # 0 =>
        /\ IssueLines("placeholder_text")
              = [n \in 1..Len(OffendingLines(HasPlaceholder)) |->
                    OffendingLines(HasPlaceholder)[n] - RequestedHeading]
        /\ IssueLines("potential_unsupported_claim")
              = [n \in 1..Len(OffendingLines(UnsupportedClaim)) |->
                    OffendingLines(UnsupportedClaim)[n] - RequestedHeading]

\* C25: there is one placeholder_text and one potential_unsupported_claim
\* issue per offending body line, and its line is the line of that body
\* line in main.tex
C25_IssueLineIsLineInSourceFile ==
    pc = "section_done" /\ RequestedHeading # 0 =>
        /\ IssueLines("placeholder_text") = OffendingLines(HasPlaceholder)
        /\ IssueLines("potential_unsupported_claim") = OffendingLines(UnsupportedClaim)

----------------------------------------------------------------------------
(* Claims about the order of the remote pass (SpecRemote) *)

RequestsOf(i) == SelectSeq(requests, LAMBDA r : r.entry = i)

DoiRequest(i)   == [entry |-> i, via |-> "doi"]
TitleRequest(i) == [entry |-> i, via |-> "title"]

RECURSIVE SumOver(_, _)
SumOver(f, S) ==
    IF S = {} THEN 0
    ELSE LET x == CHOOSE y \in S : TRUE IN f[x] + SumOver(f, S \ {x})

\* C26: the requests follow the bibliography order, an entry gets at most
\* one identifier lookup followed by at most one title search, the title
\* search follows the identifier lookup only when that lookup ended in
\* not_found and the entry has a title, no request is repeated, no request
\* of an entry is issued before the results of all entries before it are
\* recorded, and the report holds one result per entry, in order, with a
\* status histogram that sums to the number of entries
C26_OneEntryAtATimeInOrder ==
    /\ \A k \in 1..(Len(requests) - 1) : requests[k].entry <= requests[k + 1].entry
    /\ \A k, l \in 1..Len(requests) : requests[k] = requests[l] => k = l
    /\ \A i \in 1..Len(remote_entries) :
          RequestsOf(i) \in { <<>>, <<DoiRequest(i)>>, <<TitleRequest(i)>>,
                              <<DoiRequest(i), TitleRequest(i)>> }
    /\ \A k \in 1..Len(requests) :
          /\ requests[k].entry \in 1..Len(remote_entries)
          /\ requests[k].entry <= Len(validation_results) + 1
    /\ \A i \in {Subject} :
          (i >= 1 /\ Searched(i, "doi") /\ Searched(i, "title"))
          => /\ _validate_by_doi(remote_entries[i], lookups.doi).status = "not_found"
             /\ remote_entries[i].title # <<>>
    /\ Len(validation_results) <= Len(remote_entries)
    /\ \A i \in 1..Len(validation_results) : validation_results[i].key = remote_entries[i].key
    /\ pc = "remote_done" =>
          /\ Len(validation_results) = Len(remote_entries)
          /\ SumOver(status_counts(validation_results),
                     DOMAIN status_counts(validation_results)) = Len(remote_entries)

\* a report on two entries: an identifier lookup and a title search for the
\* first, then a title search for the second
C26_Witness ==
    /\ pc = "remote_done"
    /\ requests = <<DoiRequest(1), TitleRequest(1), TitleRequest(2)>>
    /\ Len(validation_results) = 2
    /\ validation_results[1].status # validation_results[2].status

----------------------------------------------------------------------------
(* Specification SpecScope: validate_citations.main without --remote on a  *)
(* project of the files a.tex and main.tex, where main.tex may hold an     *)
(* inclusion directive for a.tex.  invocation.written lists the citation   *)
(* commands written in the two files.                                       *)

\* lines 49-54: the .tex files under the root, sorted
_iter_files == TexOrder

\* lines 409-417: the explicit entry file alone, or every .tex file
tex_files(inv) == IF inv.main_tex = "unset" THEN _iter_files ELSE <<inv.main_tex>>

\* lines 71-90: the records of the files, file after file
_extract_citations(files, written) ==
    Concat([n \in 1..Len(files) |-> SelectSeq(written, LAMBDA c : c.file = files[n])])

ScopeInvocations ==
    [main_tex : {"unset", "main.tex"}, includes : BOOLEAN,
     written : CitationLists, bibliography : BibLists]

InitScope ==
    /\ pc = "invoked"
    /\ invocation \in ScopeInvocations
    /\ outcome = <<>>
    /\ IdleTitle /\ IdleLocal /\ IdleWalk /\ IdleRemote /\ IdleSource /\ IdleVerify

\* validate_citations.main (lines 401-533) without --remote
ValidatorMainOnProject ==
    /\ pc = "invoked"
    /\ \E cs \in {_extract_citations(tex_files(invocation), invocation.written)} :
          /\ citations' = cs
          /\ local_issues' = LocalIssues(cs, invocation.bibliography)
    /\ bib_entries' = invocation.bibliography
    /\ outcome' = Report(0)
    /\ pc' = "validator_done"
    /\ UNCHANGED <<invocation, issues, max_issues, refs, figures, tables, titleVars,
                   walkVars, remoteVars, sourceVars, verifyVars>>

NextScope == ValidatorMainOnProject

SpecScope == InitScope /\ [][NextScope]_vars

\* the files reachable from main.tex through inclusion directives
WorkingSet == {"main.tex"} \cup (IF invocation.includes THEN {"a.tex"} ELSE {})

Occurrences(list, c) == Count(list, LAMBDA r : r = c)

\* the citations checked are exactly those written in the files of S
ChecksCitationsOf(S) ==
    /\ \A n \in 1..Len(citations) : citations[n].file \in S
    /\ \A n \in 1..Len(invocation.written) :
          invocation.written[n].file \in S =>
              Occurrences(citations, invocation.written[n])
                  = Occurrences(invocation.written, invocation.written[n])

\* with an explicit entry file the citations checked are those written in
\* that file, without one those of every .tex file (holds)
ChecksEntryFileAlone ==
    pc = "validator_done" =>
        ChecksCitationsOf(IF invocation.main_tex = "unset" THEN Range(TexOrder)
                          ELSE {invocation.main_tex})

\* C27: with an explicit entry file the citations checked are those of
\* every file reachable from it through inclusion directives
C27_ChecksCitationsOfInclusionTree ==
    pc = "validator_done" /\ invocation.main_tex # "unset" =>
        ChecksCitationsOf(WorkingSet)

----------------------------------------------------------------------------
(* Claims about the ranking of the similarity branches (SpecTitle) *)

\* the words of a normalized title: its maximal runs of characters other
\* than the blank
WordsOf(n) ==
    {SubSeq(n, p[1], p[2]) :
        p \in {q \in (1..Len(n)) \X (1..Len(n)) :
                  /\ q[1] <= q[2]
                  /\ \A k \in q[1]..q[2] : n[k] # " "
                  /\ (q[1] = 1 \/ n[q[1] - 1] = " ")
                  /\ (q[2] = Len(n) \/ n[q[2] + 1] = " ")}}

\* the two normalized titles are nonempty, differ, and one contains the other
ProperSubstringPair(na, nb) ==
    na # <<>> /\ nb # <<>> /\ na # nb /\ (IsSubstring(na, nb) \/ IsSubstring(nb, na))

\* the two normalized titles are nonempty, differ, and neither contains the
\* other
UnrelatedPair(na, nb) ==
    na # <<>> /\ nb # <<>> /\ na # nb /\ ~IsSubstring(na, nb) /\ ~IsSubstring(nb, na)

\* C28 as stated: the score is 1.0 only when the normalized titles are
\* identical, and a pair whose normalized titles are neither identical nor
\* substring-related scores less than the 0.9 of a proper-substring pair
C28_SubstringAboveEveryUnrelatedPair ==
    pc = "title_done" =>
        /\ ScoreEQ(score, One) => _normalize_title(ta) = _normalize_title(tb)
        /\ ProperSubstringPair(_normalize_title(ta), _normalize_title(tb))
              => ScoreEQ(score, SubstringScore)
        /\ UnrelatedPair(_normalize_title(ta), _normalize_title(tb))
              => ~ScoreGE(score, SubstringScore)

\* C28 (amended): a proper-substring pair scores 0.9; a pair whose
\* normalized titles are neither identical nor substring-related scores the
\* Jaccard index of the two word sets, which is 1.0 exactly when the word
\* sets are equal; so the score is 1.0 exactly when the normalized titles
\* are identical and nonempty or, being unrelated, have the same word set
C28_UnrelatedPairScoresJaccardUpToOne ==
    pc = "title_done" =>
        /\ ProperSubstringPair(_normalize_title(ta), _normalize_title(tb))
              => ScoreEQ(score, SubstringScore)
        /\ UnrelatedPair(_normalize_title(ta), _normalize_title(tb))
              => /\ ScoreEQ(score,
                            Frac(Cardinality(WordsOf(_normalize_title(ta))
                                             \cap WordsOf(_normalize_title(tb))),
                                 Cardinality(WordsOf(_normalize_title(ta))
                                             \cup WordsOf(_normalize_title(tb)))))
                 /\ ScoreEQ(score, One)
                       = (WordsOf(_normalize_title(ta)) = WordsOf(_normalize_title(tb)))
        /\ ScoreEQ(score, One)
              = \/ _normalize_title(ta) = _normalize_title(tb) /\ _normalize_title(ta) # <<>>
                \/ /\ UnrelatedPair(_normalize_title(ta), _normalize_title(tb))
                   /\ WordsOf(_normalize_title(ta)) = WordsOf(_normalize_title(tb))

\* the same two words in the other order: unrelated, and scored 1.0
C28_Witness ==
    /\ pc = "title_done"
    /\ _normalize_title(ta) = <<"a", " ", "b">>
    /\ _normalize_title(tb) = <<"b", " ", "a">>
    /\ ScoreEQ(score, One)

----------------------------------------------------------------------------
(* Claims about likely_hallucinated (SpecRemote) *)

\* the title search of entry i was answered with a list of candidates
SearchAnswered(i) == Recorded(i) /\ lookups.title.kind = "ok"

\* no candidate of the answer scores above 0.0 against the entry's title
NoCandidateScores(i) ==
    \A j \in 1..Len(lookups.title.items) : ~ScoreGT(ItemScores(i)[j], Zero)

\* C29 as stated: an entry is classified likely_hallucinated exactly when
\* its title search returned zero candidates
C29_HallucinatedExactlyWhenNoCandidates ==
    \A i \in {Subject} :
        Recorded(i) =>
            (validation_results[i].status = "likely_hallucinated")
                = (SearchAnswered(i) /\ lookups.title.items = <<>>)

\* C29 (amended): an entry is classified likely_hallucinated exactly when
\* its title search was answered with a list of candidates none of which
\* scores above 0.0 against the entry's title: the empty list, or candidates
\* that share no word with the title or carry no title
C29_HallucinatedExactlyWhenNoCandidateScores ==
    \A i \in {Subject} :
        Recorded(i) =>
            (validation_results[i].status = "likely_hallucinated")
                = (SearchAnswered(i) /\ NoCandidateScores(i))

\* an entry with words in its title classified likely_hallucinated although
\* its title search, made after a failed identifier lookup, returned two
\* candidates
C29_Witness ==
    /\ Recorded(Subject) /\ SearchAnswered(Subject)
    /\ Len(lookups.title.items) = 2
    /\ validation_results[Subject].status = "likely_hallucinated"
    /\ remote_entries[Subject].doi # <<>>
    /\ _normalize_title(remote_entries[Subject].title) # <<>>

----------------------------------------------------------------------------
(* Specification SpecScan: the loops of _parse_bib_entries and of           *)
(* _parse_bib_fields, one turn of the outer while per step, on two records  *)
(* and on a field list with a quoted value, an escaped quote and a braced   *)
(* value, from each of which at most MaxDropped characters were lost.  A    *)
(* scanner runs to its end without waiting for anything, so a turn that    *)
(* can be taken is taken.                                                   *)

\* t="A\"b",e={c}
FieldsText ==
    <<"t", "=", "\"", "A", "\\", "\"", "b", "\"", ",", "e", "=", "{", "c", "}">>

ScanTexts ==
    BibTexts(2) \cup
    {Without(FieldsText, D) : D \in DropSets(Len(FieldsText), MaxDropped)}

InitScan ==
    /\ pc \in {"bib_read", "fields_read"}
    /\ text \in ScanTexts
    /\ scanned = IF pc = "bib_read" THEN ScanStart ELSE FieldsStart
    /\ IdleTitle /\ IdleWalk /\ IdleRemote /\ IdleVerify /\ IdleRun
    /\ citations = <<>> /\ bib_entries = <<>>
    /\ local_issues = <<>> /\ issues = <<>> /\ max_issues = 0
    /\ refs = <<>> /\ figures = <<>> /\ tables = <<>>

\* lines 98-146: one turn of the loop of _parse_bib_fields
FieldsScanTurn ==
    /\ pc \in {"fields_read", "fields_scan"}
    /\ scanned.pos <= Len(text)
    /\ \E st \in {FieldsTurn(text, scanned)} :
          /\ scanned' = st
          /\ pc' = IF st.done THEN "fields_parsed" ELSE "fields_scan"
    /\ BibFrame

\* line 98: i < n fails
FieldsScanEnd ==
    /\ pc \in {"fields_read", "fields_scan"}
    /\ scanned.pos > Len(text)
    /\ scanned' = [scanned EXCEPT !.done = TRUE]
    /\ pc' = "fields_parsed"
    /\ BibFrame

NextScan == BibScanTurn \/ BibScanEnd \/ FieldsScanTurn \/ FieldsScanEnd

SpecScan == InitScan /\ [][NextScan]_vars /\ WF_vars(NextScan)

\* a turn after which the loop goes on
LoopGoesOn == pc' \in {"bib_scan", "fields_scan"}

\* C30: every turn of the two scanners after which the loop goes on leaves
\* the scan position strictly behind where it was and at most one behind the
\* end of the text, and every scan ends, whatever braces, quotes, "@" or
\* commas the text has lost
C30_ScannersAdvanceAndTerminate ==
    /\ [][LoopGoesOn => scanned'.pos > scanned.pos /\ scanned'.pos <= Len(text) + 1]_vars
    /\ <>(pc \in {"bib_parsed", "fields_parsed"})

\* the field scan of  t="Ab,e={c}  (closing quote lost) has ended, the
\* quoted value running to the end of the text
C30_Witness ==
    /\ pc = "fields_parsed"
    /\ text = <<"t", "=", "\"", "A", "\\", "\"", "b", ",", "e", "=", "{", "c", "}">>
    /\ scanned.pos = Len(text) + 1
    /\ DOMAIN scanned.fields = {<<"t">>}

====
